---- MODULE Spec2Model ----
(***************************************************************************)
(* Model of the bus clients (RabbitMQEventBus, RabbitMQCommandBus), of the *)
(* change-capture cursor service (ChangeDataCapture) and of PedidoAgent.   *)
(*                                                                         *)
(* SpecBus    : one bus instance, its broker-side topology and the         *)
(*              consume callback with its retry loop.                      *)
(* FairSpecBus: SpecBus with a fair broker, handlers that return and       *)
(*              timers that fire.                                          *)
(* SpecCdc    : the poll loop of the cursor service over the change log.   *)
(* SpecConn   : connect() calls step by step, connection loss, disconnect. *)
(* SpecSvc    : start(), stop() and the poll loops of the cursor service.  *)
(* SpecApi    : publish and subscribe as calls with an outcome, on a bus   *)
(*              whose connect() calls run step by step.                    *)
(* SpecBatch  : publish and publishBatch.                                  *)
(* SpecQueue  : queues, bindings and consumers of the event exchange,      *)
(*              the agents' SimpleEventBus subscriptions included.         *)
(* SpecDlq    : getDLQMessages on the dead-letter queue.                   *)
(* SpecRetry  : handleWithRetry with any configured retry count and delay. *)
(* SpecUnsub  : subscribe and unsubscribe on either bus.                   *)
(* SpecPedido : PedidoAgent: initialize(), handlePedidoCriado under the    *)
(*              event bus's dispatcher, CriarPedidoCommandHandler.         *)
(* SpecHops   : the correlationId through the cursor service, the agent    *)
(*              and the command handler.                                   *)
(***************************************************************************)
EXTENDS Integers, Sequences, FiniteSets, TLC

\* ------------------------------------------------------------------ bounds
MaxMsgs == 1          \* messages handed to the main exchange
MaxDeliv == 2         \* deliveries the broker makes to consumers
MaxConn == 2          \* broker connections opened over the run
MaxSubs == 2          \* handlers kept per message type in the registry
MaxRetriesCfg == 2    \* largest maxRetries passed to the constructor
MaxRows == 2          \* rows (and row ids) of audit.event_log
MaxCalls == 2         \* connect() calls made on the bus over the run
MaxStarts == 2        \* start() calls made on the cursor service
MaxSends == 2         \* messages handed over by calls of the bus interface
MaxBatch == 2         \* items of a publishBatch call
MaxDlq == 2           \* messages put into the dead-letter queue
MaxLimit == 2         \* largest limit passed to getDLQMessages
MaxAttemptsCfg == 4   \* largest configured maxRetries (retry specification)
MaxPedDeliv == 2      \* deliveries of PedidoCriado to the PedidoAgent
MaxPedidos == 1       \* pedido ids carried by PedidoCriado envelopes
MaxItems == 1         \* largest number of items of a pedido
MaxCmds == 1          \* CriarPedidoCommand commands handled

\* ------------------------------------------------------- program constants
DefaultMaxRetries == 3
DefaultRetryDelayMs == 5000
DefaultPrefetch == 10
ConnectMaxRetries == 5

VARIABLES
  \* --- bus instance (fields of RabbitMQEventBus / RabbitMQCommandBus)
  busKind,      \* "event" or "command": which class the instance is
  maxRetries,   \* this.config.maxRetries
  connection,   \* this.connection (0 = null, else a connection id)
  channel,      \* this.channel (0 = null, else the id of its connection)
  isConnected,  \* this.isConnected
  handlers,     \* this.handlers: message type -> sequence of handlers
  connPc,       \* "idle" or "connecting": a connect() call in its loop
  retries,      \* connect(): local variable retries
  \* --- broker
  openConns,    \* connections (and their channels) the broker holds open
  listening,    \* connections carrying this bus's 'error'/'close' listeners
  nextConn,     \* next connection id
  declared,     \* exchanges and dead-letter queue declared (durable)
  bound,        \* work queues declared and bound to the main exchange
  consumers,    \* consumers: [chan, queue, h]
  subOk,        \* queues for which a subscribe() call returned normally
  msgs,         \* messages accepted by the main exchange: [key, body, tracked]
  ready,        \* queue -> sequence of message ids ready for delivery
  deliv,        \* deliveries made to consume callbacks
  dlq,          \* content of the dead-letter queue: [msg, body]
  deadLost,     \* dead-lettered messages the dead-letter exchange dropped
  \* --- cursor service
  log,          \* audit.event_log: set of rows [id, entity, etype]
  cursor,       \* audit.cdc_position: entity type -> last_lsn (0 = no row)
  cdcPc,        \* "idle" (between ticks) or "scan"
  positions,    \* checkForChanges: the positions map read at cycle start
  entIdx,       \* index of the entity type being processed (1..3)
  queried,      \* whether the current entity type's query has returned
  rows,         \* rows of the current result set not yet processed
  firstPub,     \* row ids in the order of their first publication
  cyclePub,     \* entity type -> row ids published in the current cycle
  cycleDone,    \* entity type -> its processing completed in this cycle
  snapLog,      \* entity type -> the log as it was when its query ran
  cycles,       \* scan cycles started so far (saturating at 2)
  curClean,     \* the most recent cycle completed without error
  prevClean,    \* the cycle before the most recent one did
  insCur,       \* a row was inserted since the most recent cycle started
  insPrev,      \* a row was inserted during the cycle before it or the sleep after
  abortedBy,    \* what ended the most recent cycle early ("none" if nothing)
  \* --- connect() calls in flight (connection specification)
  calls,        \* call id -> [pc, retries, attempts, delays, noop]
  closedChans,  \* channels closed while their connection is still open
  \* --- cursor service life cycle (service specification)
  isRunning,    \* this.isRunning
  pool,         \* this.pool: "open", "ending" (end() called) or "ended"
  busUp,        \* the service's eventBus is connected
  starts,       \* start() call id -> "none", "db", "bus", "done", "failed"
  stopPc,       \* stop(): "none", "ending", "disconnecting", "done"
  loops,        \* poll() loop id -> [pc, positions, entIdx, queried, rows]
  leaked,       \* clients checked out by start() and never released
  cycleAfterStop, \* checkForChanges was called after stop() was
  inFlightAtStop, \* a scan cycle was in flight when stop() was called
  \* --- calls of the bus interface and what they leave behind
  lastCall,     \* the most recent publish / publishBatch / subscribe /
                \* getDLQMessages call: what it did and how it ended
  lossPending,  \* a connection loss set isConnected to false and connect()
                \* was not called since
  agentQueues,  \* queues bound by SimpleEventBus.subscribe: [agent, type]
  agentGot,     \* <<agent queue, message>> pairs the main exchange routed
  dlqHeld,      \* dead-letter entries fetched by channel.get and not
                \* settled: [ch, msg, body]
  envelopes,    \* row id -> [n: envelopes published for the row (saturating
                \* at 2), corrs: the correlationIds they carried]
  \* --- retry configuration of the bus instance
  retryDelayMs, \* this.config.retryDelayMs
  \* --- PedidoAgent
  entryConnects, \* the eventBus handed to the agent's constructor was
                \* connected by whoever constructed the agent
  pedPc,        \* initialize(): "new", "redis", "db", "rabbit", "tables",
                \* "subscribed", "commands", "ready" or "failed"
  agentChan,    \* this.rabbitmqChannel is set (setupRabbitMQ ran)
  pedRows,      \* agent_pedidos.pedidos: committed pedido ids
  pedItems,     \* agent_pedidos.items: pedido id -> committed item rows
  pedCache,     \* Redis: pedido ids with a cached entry
  pedEvents,    \* PedidoProcessado envelopes published: [pedidoId, corr, by]
  pedDeliv,     \* deliveries of PedidoCriado to the agent's handler
  cmdRows,      \* domain pedidos committed by CriarPedidoCommandHandler
  cmdEvents,    \* PedidoCriado envelopes it published: [cmd, corr, source]
  cmdDone       \* command id -> "none", "acked" or "nacked"

busVars == <<busKind, maxRetries, connection, channel, isConnected, handlers,
             connPc, retries, openConns, listening, nextConn, declared, bound,
             consumers, subOk, msgs, ready, deliv, dlq, deadLost>>
cdcVars == <<log, cursor, cdcPc, positions, entIdx, queried, rows, firstPub,
             cyclePub, cycleDone, snapLog, cycles, curClean, prevClean, insCur,
             insPrev, abortedBy>>
connVars == <<calls, closedChans>>
svcVars == <<isRunning, pool, busUp, starts, stopPc, loops, leaked,
             cycleAfterStop, inFlightAtStop>>
apiVars == <<lastCall, lossPending, agentQueues, agentGot, dlqHeld, envelopes>>
cfgVars == <<retryDelayMs>>
pedVars == <<entryConnects, pedPc, agentChan, pedRows, pedItems, pedCache,
             pedEvents, pedDeliv, cmdRows, cmdEvents, cmdDone>>
extVars == <<connVars, svcVars, apiVars, cfgVars, pedVars>>
vars == <<busVars, cdcVars, extVars>>

\* ------------------------------------------------------------ vocabulary
BusKinds == {"event", "command"}
EntityNames == {"Cliente", "Pedido"}
TypeNames == {"Criado"}
HandlerIds == {"h1"}
Bodies == {"envelope", "garbage", "jsonNull"}

\* handler.entityType() of the handler of the model
entityType(h) == "Cliente"

\* `${entity}.${type}` as the sequence of its dot-separated words
RoutingKey(entity, type) == <<entity, type>>

\* queue of a subscription (the bus prefix is fixed per instance)
QueueName(h, type) == <<entityType(h), type>>
QueueNames == EntityNames \X TypeNames

\* binding key '' of the dead-letter queue: no words
DlqBindingKey == <<>>

\* x-dead-letter-routing-key of command work queues
CommandDeadLetterKey == <<"commands", "dead-letter">>

\* Topic-exchange matching of a routing key against a binding key.
RECURSIVE TopicMatch(_, _)
TopicMatch(pattern, key) ==
  IF pattern = <<>> THEN key = <<>>
  ELSE IF Head(pattern) = "#"
    THEN \/ TopicMatch(Tail(pattern), key)
         \/ (key # <<>> /\ TopicMatch(pattern, Tail(key)))
  ELSE /\ key # <<>>
       /\ (Head(pattern) = "*" \/ Head(pattern) = Head(key))
       /\ TopicMatch(Tail(pattern), Tail(key))

\* Routing key a dead-lettered message carries on the dead-letter exchange.
DeadLetterKey(kind, key) ==
  IF kind = "command" THEN CommandDeadLetterKey ELSE key

\* config.maxRetries || 3
NormMaxRetries(cfg) == IF cfg = 0 THEN DefaultMaxRetries ELSE cfg

\* config.retryDelayMs || 5000
NormRetryDelay(cfg) == IF cfg = 0 THEN DefaultRetryDelayMs ELSE cfg

Pow2(n) == 2 ^ n

RetryDelayLinear(base, attempt) == base * attempt
\* handleWithRetry: this.config.retryDelayMs * Math.pow(2, attempt - 1)
RetryDelay(base, attempt) == base * Pow2(attempt - 1)

\* correlation ids carried by rows, commands and envelopes
CorrIds == {"c1", "c2"}

\* audit.event_log.correlation_id (UUID NOT NULL) of the row with this id
RowCorrelationId(id) == IF id % 2 = 1 THEN "c1" ELSE "c2"

\* value || '': the empty string for null and for the empty string
OrEmpty(value) == IF value \in {"null", ""} THEN "" ELSE value

HopCorrelationFresh(incoming) == "fresh"
\* the correlationId a hop was handed (row.correlation_id,
\* event.metadata.correlationId, command.metadata.correlationId) is passed
\* to the envelope that is built: metadata: { source, correlationId, version }
HopCorrelation(incoming) == incoming

\* JSON.parse and the property reads before the handler call succeed
Parses(body) == body = "envelope"

ShouldRetryOffByOne(attempt, max) == attempt <= max
\* handleWithRetry: attempt < this.config.maxRetries
ShouldRetry(attempt, max) == attempt < max

NackRequeueTrue == TRUE
\* third argument of channel.nack(msg, false, false)
NackRequeue == FALSE

ChanOpen(ch) == ch # 0 /\ ch \in openConns

\* ------------------------------------------------------------- bus: Init
\* the fields of a constructed bus and the broker before anything ran
BusFields ==
  /\ busKind \in BusKinds
  /\ connection = 0
  /\ channel = 0
  /\ isConnected = FALSE
  /\ handlers = [t \in TypeNames |-> <<>>]
  /\ connPc = "idle"
  /\ retries = 0
  /\ openConns = {}
  /\ listening = {}
  /\ nextConn = 1
  /\ declared = FALSE
  /\ bound = {}
  /\ consumers = {}
  /\ subOk = {}
  /\ msgs = <<>>
  /\ ready = [q \in QueueNames |-> <<>>]
  /\ deliv = <<>>
  /\ dlq = <<>>
  /\ deadLost = {}

BusInit ==
  /\ BusFields
  /\ \E cfg \in 0..MaxRetriesCfg : maxRetries = NormMaxRetries(cfg)

\* ---------------------------------------------------------- bus: connect
\* connect(): the guard and the entry into the attempt loop
ConnectCall ==
  /\ connPc = "idle"
  /\ ~(isConnected /\ connection # 0)
  /\ connPc' = "connecting"
  /\ retries' = 0
  /\ lossPending' = FALSE
  /\ UNCHANGED <<cfgVars, pedVars, cdcVars, connVars, svcVars, lastCall, agentQueues, agentGot,
                 dlqHeld, envelopes, subOk, busKind, maxRetries, connection, channel, isConnected,
                 handlers, openConns, listening, nextConn, declared, bound,
                 consumers, msgs, ready, deliv, dlq, deadLost>>

\* what the catch block of connect() does with the attempt counter
AfterFailedAttempt ==
  /\ retries' = retries + 1
  /\ connPc' = IF retries + 1 >= ConnectMaxRetries THEN "idle" ELSE "connecting"

\* One iteration of the loop of connect(): amqp.connect either rejects or
\* resolves, and on a connection it opened createChannel, prefetch and the
\* topology assertions succeed.
ConnectAttempt(outcome) ==
  /\ connPc = "connecting"
  /\ retries < ConnectMaxRetries
  /\ \/ /\ outcome = "ok"
        /\ nextConn <= MaxConn
        /\ connection' = nextConn
        /\ channel' = nextConn
        /\ openConns' = openConns \cup {nextConn}
        /\ listening' = listening \cup {nextConn}
        /\ nextConn' = nextConn + 1
        /\ declared' = TRUE
        /\ isConnected' = TRUE
        /\ connPc' = "idle"
        /\ UNCHANGED retries
     \/ /\ outcome = "failConnect"      \* amqp.connect rejects
        /\ AfterFailedAttempt
        /\ UNCHANGED <<connection, channel, openConns, listening, nextConn,
                       declared, isConnected>>
  /\ UNCHANGED <<cdcVars, extVars, subOk, busKind, maxRetries, handlers, bound, consumers, msgs,
                 ready, deliv, dlq, deadLost>>

\* messages of unsettled deliveries of channel c on queue q, in delivery order
RECURSIVE Unsettled(_, _, _)
Unsettled(ds, c, q) ==
  IF ds = <<>> THEN <<>>
  ELSE (IF Head(ds).ch = c /\ Head(ds).queue = q /\ Head(ds).settled = "no"
          THEN <<Head(ds).msg>> ELSE <<>>) \o Unsettled(Tail(ds), c, q)

\* dead-letter entries held unsettled by channel c, as queue entries
HeldOn(c) ==
  LET h == SelectSeq(dlqHeld, LAMBDA x : x.ch = c)
  IN [i \in 1..Len(h) |-> [msg |-> h[i].msg, body |-> h[i].body]]

\* The broker or the network ends connection c: the 'error' / 'close'
\* listeners run, the broker drops the channel's consumers and requeues
\* its unacknowledged deliveries and fetched messages.
ConnectionLost(c) ==
  /\ c \in openConns
  /\ openConns' = openConns \ {c}
  /\ listening' = listening \ {c}
  /\ isConnected' = IF c \in listening THEN FALSE ELSE isConnected
  /\ consumers' = {k \in consumers : k.chan # c}
  /\ ready' = [q \in QueueNames |-> Unsettled(deliv, c, q) \o ready[q]]
  /\ deliv' = [i \in DOMAIN deliv |->
                 IF deliv[i].ch = c /\ deliv[i].settled = "no"
                   THEN [deliv[i] EXCEPT !.settled = "requeued"]
                   ELSE deliv[i]]
  /\ lossPending' = (lossPending \/ c \in listening)
  /\ dlq' = HeldOn(c) \o dlq
  /\ dlqHeld' = SelectSeq(dlqHeld, LAMBDA x : x.ch # c)
  /\ UNCHANGED <<cfgVars, pedVars, cdcVars, connVars, svcVars, lastCall, agentQueues, agentGot,
                 envelopes, subOk, busKind, maxRetries, connection, channel,
                 handlers, connPc, retries, nextConn, declared, bound, msgs,
                 deadLost>>

\* ------------------------------------------------ bus: subscribe, publish
\* binding key of a work queue: `${handler.entityType()}.${type}`
BindingKey(q) == RoutingKey(q[1], q[2])

\* work queues the main topic exchange routes a key to
Route(key) == {q \in bound : TopicMatch(BindingKey(q), key)}

\* the queues after the main exchange accepted message m with this key
Enqueue(key, m) ==
  [q \in QueueNames |-> IF q \in Route(key) THEN Append(ready[q], m) ELSE ready[q]]

\* subscribe(handler, type) on a channel the broker holds open: what it
\* does to the bus and the broker
SubscribeBody(h, type, outcome) ==
  /\ channel # 0
  /\ ChanOpen(channel)
  /\ Len(handlers[type]) < MaxSubs
  /\ bound' = bound \cup {QueueName(h, type)}
  /\ handlers' = [handlers EXCEPT ![type] = Append(@, h)]
  /\ \/ /\ outcome = "ok"
        /\ consumers' = consumers \cup
             {[chan |-> channel, queue |-> QueueName(h, type), h |-> h]}
        /\ subOk' = subOk \cup {QueueName(h, type)}
     \/ /\ outcome = "consumeRaises"
        /\ UNCHANGED <<consumers, subOk>>
  /\ UNCHANGED <<cdcVars, busKind, maxRetries, connection, channel, isConnected, connPc,
                 retries, openConns, listening, nextConn, declared, msgs,
                 ready, deliv, dlq, deadLost>>

Subscribe(h, type, outcome) ==
  /\ SubscribeBody(h, type, outcome)
  /\ UNCHANGED extVars

\* a handler with entityType() = entity is in the registry for this type
\* and its subscribe() call returned normally
Subscribed(entity, type) ==
  /\ \E i \in DOMAIN handlers[type] : entityType(handlers[type][i]) = entity
  /\ <<entity, type>> \in subOk

\* publish(event) with the send succeeding
Publish(entity, type) ==
  /\ channel # 0
  /\ ChanOpen(channel)
  /\ Len(msgs) < MaxMsgs
  /\ LET key == RoutingKey(entity, type)
         m == Len(msgs) + 1
     IN /\ msgs' = Append(msgs, [key |-> key, body |-> "envelope",
                                 tracked |-> isConnected /\ Subscribed(entity, type)])
        /\ ready' = Enqueue(key, m)
  /\ UNCHANGED <<cdcVars, extVars, subOk, busKind, maxRetries, connection, channel, isConnected,
                 handlers, connPc, retries, openConns, listening, nextConn,
                 declared, bound, consumers, deliv, dlq, deadLost>>

\* Another producer hands the main exchange a body that is not an envelope.
ForeignPublish(entity, type, body) ==
  /\ declared
  /\ body # "envelope"
  /\ Len(msgs) < MaxMsgs
  /\ LET key == RoutingKey(entity, type)
         m == Len(msgs) + 1
     IN /\ msgs' = Append(msgs, [key |-> key, body |-> body, tracked |-> FALSE])
        /\ ready' = Enqueue(key, m)
  /\ UNCHANGED <<cdcVars, extVars, subOk, busKind, maxRetries, connection, channel, isConnected,
                 handlers, connPc, retries, openConns, listening, nextConn,
                 declared, bound, consumers, deliv, dlq, deadLost>>

\* ------------------------------------------------- bus: consume callback
\* a call of this.channel!.ack / nack for delivery d reaches the broker on
\* the channel that made the delivery
CallReaches(d) == ChanOpen(channel) /\ channel = d.ch

\* the delivery after this.channel!.nack(msg, false, NackRequeue)
NackCall(d) ==
  [d EXCEPT !.nacks = @ + 1,
            !.requeueArgs = @ \cup {NackRequeue},
            !.pc = "done",
            !.settled = IF CallReaches(d)
                          THEN (IF NackRequeue THEN "requeued" ELSE "dead")
                          ELSE @]

\* the queues after the broker handled that nack
ReadyAfterNack(rdy, d) ==
  IF CallReaches(d) /\ NackRequeue
    THEN [rdy EXCEPT ![d.queue] = <<d.msg>> \o @]
    ELSE rdy

\* The broker dead-letters message m of a work queue: the dead-letter
\* exchange is a topic exchange and the dead-letter queue is bound with ''.
DeadLetter(m) ==
  IF TopicMatch(DlqBindingKey, DeadLetterKey(busKind, msgs[m].key))
    THEN /\ dlq' = Append(dlq, [msg |-> m, body |-> msgs[m].body])
         /\ UNCHANGED deadLost
    ELSE /\ deadLost' = deadLost \cup {m}
         /\ UNCHANGED dlq

\* what the nack of delivery d does to the dead-letter side
DeadLetterAfterNack(d) ==
  IF CallReaches(d) /\ ~NackRequeue
    THEN DeadLetter(d.msg)
    ELSE UNCHANGED <<dlq, deadLost>>

\* handler.handle(event) is called
Invoke(d) == [d EXCEPT !.invocations = @ + 1, !.pc = "handling"]

\* deliveries of channel c that are neither acked nor nacked
Unacked(c) == {i \in DOMAIN deliv : deliv[i].ch = c /\ deliv[i].settled = "no"}

\* The broker delivers the head of a queue to consumer k; the callback runs
\* up to its first suspension: parse, then the first handler call, or the
\* catch block's nack when parsing raised.
Deliver(k) ==
  /\ k \in consumers
  /\ ChanOpen(k.chan)
  /\ ready[k.queue] # <<>>
  /\ Len(deliv) < MaxDeliv
  /\ Cardinality(Unacked(k.chan)) < DefaultPrefetch
  /\ LET m == Head(ready[k.queue])
         popped == [ready EXCEPT ![k.queue] = Tail(@)]
         d == [msg |-> m, h |-> k.h, queue |-> k.queue, ch |-> k.chan,
               pc |-> "received", attempt |-> 1, invocations |-> 0,
               failures |-> 0, succeeded |-> FALSE, acks |-> 0, nacks |-> 0,
               requeueArgs |-> {}, settled |-> "no", delays |-> <<>>]
     IN IF Parses(msgs[m].body)
          THEN /\ deliv' = Append(deliv, Invoke(d))
               /\ ready' = popped
               /\ UNCHANGED <<dlq, deadLost>>
          ELSE /\ deliv' = Append(deliv, NackCall(d))
               /\ ready' = ReadyAfterNack(popped, d)
               /\ DeadLetterAfterNack(d)
  /\ UNCHANGED <<cdcVars, extVars, subOk, busKind, maxRetries, connection, channel, isConnected,
                 handlers, connPc, retries, openConns, listening, nextConn,
                 declared, bound, consumers, msgs>>

\* The handler's promise settles. On success the callback acks; an ack that
\* raises lands in the catch block, which nacks. On failure the event bus
\* retries (handleWithRetry) and the command bus nacks at once.
HandlerReturns(i, ok) ==
  /\ i \in DOMAIN deliv
  /\ deliv[i].pc = "handling"
  /\ LET d == deliv[i]
         a == [d EXCEPT !.acks = @ + 1, !.succeeded = TRUE]
         f == [d EXCEPT !.failures = @ + 1]
     IN IF ok
          THEN IF ~ChanOpen(channel)
                 THEN /\ deliv' = [deliv EXCEPT ![i] = NackCall(a)]
                      /\ ready' = ReadyAfterNack(ready, a)
                      /\ DeadLetterAfterNack(a)
                 ELSE /\ deliv' = [deliv EXCEPT ![i] =
                            [a EXCEPT !.pc = "done",
                                      !.settled = IF CallReaches(d) THEN "acked" ELSE @]]
                      /\ UNCHANGED <<ready, dlq, deadLost>>
          ELSE IF busKind = "event" /\ ShouldRetry(d.attempt, maxRetries)
                 THEN /\ deliv' = [deliv EXCEPT ![i] =
                            [f EXCEPT !.pc = "waiting",
                                      !.delays = Append(@, RetryDelay(retryDelayMs, d.attempt))]]
                      /\ UNCHANGED <<ready, dlq, deadLost>>
                 ELSE /\ deliv' = [deliv EXCEPT ![i] = NackCall(f)]
                      /\ ready' = ReadyAfterNack(ready, f)
                      /\ DeadLetterAfterNack(f)
  /\ UNCHANGED <<cdcVars, extVars, subOk, busKind, maxRetries, connection, channel, isConnected,
                 handlers, connPc, retries, openConns, listening, nextConn,
                 declared, bound, consumers, msgs>>

\* handleWithRetry: the retry delay has elapsed, the handler is called again
RetryTimer(i) ==
  /\ i \in DOMAIN deliv
  /\ deliv[i].pc = "waiting"
  /\ deliv' = [deliv EXCEPT ![i] = Invoke([@ EXCEPT !.attempt = @ + 1])]
  /\ UNCHANGED <<cdcVars, extVars, subOk, busKind, maxRetries, connection, channel, isConnected,
                 handlers, connPc, retries, openConns, listening, nextConn,
                 declared, bound, consumers, msgs, ready, dlq, deadLost>>

ConnectOutcomes == {"ok", "failConnect"}
SubscribeOutcomes == {"ok", "consumeRaises"}

NextBus ==
  \/ ConnectCall
  \/ \E o \in ConnectOutcomes : ConnectAttempt(o)
  \/ \E c \in 1..MaxConn : ConnectionLost(c)
  \/ \E h \in HandlerIds, t \in TypeNames, o \in SubscribeOutcomes : Subscribe(h, t, o)
  \/ \E e \in EntityNames, t \in TypeNames : Publish(e, t)
  \/ \E e \in EntityNames, t \in TypeNames, b \in Bodies : ForeignPublish(e, t, b)
  \/ \E k \in consumers : Deliver(k)
  \/ \E i \in 1..MaxDeliv, ok \in BOOLEAN : HandlerReturns(i, ok)
  \/ \E i \in 1..MaxDeliv : RetryTimer(i)

\* ------------------------------------------------------- cursor service
\* the entity types, in the order checkForChanges processes them
CdcEntities == <<"Cliente", "Produto", "Pedido">>
CdcEntitySet == {CdcEntities[i] : i \in DOMAIN CdcEntities}
\* audit.event_log.event_type
RowEventTypes == {"INSERT", "UPDATE"}
RowIds == 1..MaxRows

CdcInit ==
  /\ log = {}
  /\ cursor = [e \in CdcEntitySet |-> 0]
  /\ cdcPc = "idle"
  /\ positions = [e \in CdcEntitySet |-> 0]
  /\ entIdx = 1
  /\ queried = FALSE
  /\ rows = <<>>
  /\ firstPub = <<>>
  /\ cyclePub = [e \in CdcEntitySet |-> {}]
  /\ cycleDone = [e \in CdcEntitySet |-> FALSE]
  /\ snapLog = [e \in CdcEntitySet |-> {}]
  /\ cycles = 0
  /\ curClean = FALSE
  /\ prevClean = FALSE
  /\ insCur = FALSE
  /\ insPrev = FALSE
  /\ abortedBy = "none"

\* A writer appends a row to audit.event_log; its id is the column default
\* uuid_generate_v4(), so it is any id not yet in the table.
InsertRow(id, entity, etype) ==
  /\ Cardinality(log) < MaxRows
  /\ \A r \in log : r.id # id
  /\ log' = log \cup {[id |-> id, entity |-> entity, etype |-> etype]}
  /\ insCur' = TRUE
  /\ UNCHANGED <<cursor, cdcPc, positions, entIdx, queried, rows, firstPub,
                 cyclePub, cycleDone, snapLog, cycles, curClean, prevClean,
                 insPrev, abortedBy>>
  /\ UNCHANGED <<busVars, extVars>>

\* lsn = row.last_lsn === '0' || !row.last_lsn ? '' : row.last_lsn
\* (0 stands for '' and for a missing row)
ReadPositions(cur) == [e \in CdcEntitySet |-> cur[e]]

QueryRowsInclusive(lg, entity, lastPosition) ==
  {r \in lg : r.entity = entity /\ (lastPosition = 0 \/ r.id >= lastPosition)}
\* WHERE entity_type = $1 [AND id > $2::uuid]
QueryRows(lg, entity, lastPosition) ==
  {r \in lg : r.entity = entity /\ (lastPosition = 0 \/ r.id > lastPosition)}

\* ORDER BY id ASC
RECURSIVE SortedRows(_)
SortedRows(S) ==
  IF S = {} THEN <<>>
  ELSE LET r == CHOOSE x \in S : \A y \in S : x.id <= y.id
       IN <<r>> \o SortedRows(S \ {r})

TranslatesAll(row) == TRUE
\* if (row.event_type === 'INSERT')
Translates(row) == row.etype = "INSERT"

\* bookkeeping of the start of a poll-loop iteration
BeginCycle ==
  /\ cycles' = IF cycles < 2 THEN cycles + 1 ELSE 2
  /\ prevClean' = curClean
  /\ curClean' = FALSE
  /\ insPrev' = insCur
  /\ insCur' = FALSE
  /\ cyclePub' = [e \in CdcEntitySet |-> {}]
  /\ cycleDone' = [e \in CdcEntitySet |-> FALSE]
  /\ snapLog' = [e \in CdcEntitySet |-> {}]

\* poll(): a tick starts checkForChanges, which takes a client and reads
\* audit.cdc_position; either may raise, and poll() logs and sleeps.
StartCycle(ok) ==
  /\ cdcPc = "idle"
  /\ BeginCycle
  /\ IF ok
       THEN /\ positions' = ReadPositions(cursor)
            /\ cdcPc' = "scan"
            /\ entIdx' = 1
            /\ queried' = FALSE
            /\ rows' = <<>>
            /\ abortedBy' = "none"
       ELSE /\ abortedBy' = "start"
            /\ UNCHANGED <<positions, cdcPc, entIdx, queried, rows>>
  /\ UNCHANGED <<log, cursor, firstPub>>
  /\ UNCHANGED <<busVars, extVars>>

\* an exception leaves checkForChanges: the rest of the cycle is not run
AbortCycle(why) ==
  /\ cdcPc' = "idle"
  /\ abortedBy' = why
  /\ rows' = <<>>
  /\ queried' = FALSE
  /\ UNCHANGED <<positions, entIdx, cycleDone, cycles, curClean, prevClean,
                 insCur, insPrev>>

\* process<Entity>Changes: the SELECT of the current entity type
QueryEntity(ok) ==
  /\ cdcPc = "scan"
  /\ ~queried
  /\ LET e == CdcEntities[entIdx]
     IN IF ok
          THEN /\ rows' = SortedRows(QueryRows(log, e, positions[e]))
               /\ queried' = TRUE
               /\ snapLog' = [snapLog EXCEPT ![e] = log]
               /\ UNCHANGED <<cdcPc, positions, entIdx, cycleDone, cycles,
                              curClean, prevClean, insCur, insPrev, abortedBy>>
          ELSE /\ AbortCycle("query")
               /\ UNCHANGED snapLog
  /\ UNCHANGED <<log, cursor, firstPub, cyclePub>>
  /\ UNCHANGED <<busVars, extVars>>

\* "ok", or the call of the iteration that raised: JSON.parse(row.data),
\* eventBus.publish(event) or the upsert of audit.cdc_position
RowOutcomes == {"ok", "parse", "publish", "update"}

\* eventBus.publish(event) returned for this row
Published(outcome) == outcome \in {"ok", "update"}

CursorAfterRowEager(cur, entity, id, outcome) ==
  IF outcome \in {"ok", "publish"} THEN [cur EXCEPT ![entity] = id] ELSE cur
\* audit.cdc_position after the row: the upsert runs after publish returned
CursorAfterRow(cur, entity, id, outcome) ==
  IF outcome = "ok" THEN [cur EXCEPT ![entity] = id] ELSE cur

\* id of the envelope that the k-th translation of a row builds: uuidv4()
\* is called anew by every criar<Entity>CriadoEvent call
EnvelopeId(rowId, k) == <<rowId, k>>

\* correlationId of the envelope built from a row:
\* criar<Entity>CriadoEvent(data, row.correlation_id || '', 'cdc')
EnvelopeCorrelation(rowId) == HopCorrelation(OrEmpty(RowCorrelationId(rowId)))

\* envelopes published for a row after one more (counted up to 2), and the
\* correlationIds they carry
OneMoreEnvelope(env, rowId) ==
  [env EXCEPT ![rowId] = [n |-> IF @.n < 2 THEN @.n + 1 ELSE 2,
                          corrs |-> @.corrs \cup {EnvelopeCorrelation(rowId)}]]

\* ids already handed to the bus
Handed == {firstPub[i].id : i \in DOMAIN firstPub}

\* process<Entity>Changes: one iteration of `for (const row of result.rows)`
ProcessRow(outcome) ==
  /\ cdcPc = "scan"
  /\ queried
  /\ rows # <<>>
  /\ LET e == CdcEntities[entIdx]
         r == Head(rows)
     IN IF ~Translates(r)
          THEN /\ outcome = "ok"
               /\ rows' = Tail(rows)
               /\ UNCHANGED <<cursor, firstPub, cyclePub, cdcPc, queried,
                              positions, entIdx, cycleDone, cycles, curClean,
                              prevClean, insCur, insPrev, abortedBy, envelopes>>
          ELSE /\ cursor' = CursorAfterRow(cursor, e, r.id, outcome)
               /\ IF Published(outcome)
                    THEN /\ cyclePub' = [cyclePub EXCEPT ![e] = @ \cup {r.id}]
                         /\ firstPub' = IF r.id \in Handed THEN firstPub
                                        ELSE Append(firstPub, [id |-> r.id, entity |-> e])
                         /\ envelopes' = OneMoreEnvelope(envelopes, r.id)
                    ELSE UNCHANGED <<cyclePub, firstPub, envelopes>>
               /\ IF outcome = "ok"
                    THEN /\ rows' = Tail(rows)
                         /\ UNCHANGED <<cdcPc, queried, positions, entIdx,
                                        cycleDone, cycles, curClean, prevClean,
                                        insCur, insPrev, abortedBy>>
                    ELSE AbortCycle(outcome)
  /\ UNCHANGED <<log, snapLog>>
  /\ UNCHANGED <<cfgVars, pedVars, busVars, connVars, svcVars, lastCall, lossPending,
                 agentQueues, agentGot, dlqHeld>>

\* the loop over the rows ends: the next entity type, or the cycle is over
FinishEntity ==
  /\ cdcPc = "scan"
  /\ queried
  /\ rows = <<>>
  /\ cycleDone' = [cycleDone EXCEPT ![CdcEntities[entIdx]] = TRUE]
  /\ queried' = FALSE
  /\ IF entIdx < Len(CdcEntities)
       THEN /\ entIdx' = entIdx + 1
            /\ UNCHANGED <<cdcPc, curClean>>
       ELSE /\ cdcPc' = "idle"
            /\ curClean' = TRUE
            /\ UNCHANGED entIdx
  /\ UNCHANGED <<log, cursor, positions, rows, firstPub, cyclePub, snapLog,
                 cycles, prevClean, insCur, insPrev, abortedBy>>
  /\ UNCHANGED <<busVars, extVars>>

NextCdc ==
  \/ \E id \in RowIds, e \in CdcEntitySet, t \in RowEventTypes : InsertRow(id, e, t)
  \/ \E ok \in BOOLEAN : StartCycle(ok)
  \/ \E ok \in BOOLEAN : QueryEntity(ok)
  \/ \E o \in RowOutcomes : ProcessRow(o)
  \/ FinishEntity

\* ------------------------------------------- connect() calls in flight
\* connect() and disconnect() step by step: each await of connect() is a
\* step, so that two calls can be in flight at once and an attempt can fail
\* after its connection was opened.
CallIds == 1..MaxCalls

\* no connect() call was made yet
NoCall == [pc |-> "none", retries |-> 0, attempts |-> 0, delays |-> <<>>,
           noop |-> FALSE]

ConnInit ==
  /\ calls = [c \in CallIds |-> NoCall]
  /\ closedChans = {}


\* a channel that can carry a method: open, on an open connection
ChanLive(ch) == ChanOpen(ch) /\ ch \notin closedChans

AlreadyConnectedNever == FALSE
\* if (this.isConnected && this.connection)
AlreadyConnected == isConnected /\ connection # 0

\* while (retries < maxRetries)
LoopContinues(r) == r < ConnectMaxRetries

CeilingReachedLate(r) == r > ConnectMaxRetries
\* if (retries >= maxRetries) throw
CeilingReached(r) == r >= ConnectMaxRetries

Min(a, b) == IF a <= b THEN a ELSE b

BackoffDelayFromOne(r) == Min(1000 * Pow2(r - 1), 30000)
\* delayMs = Math.min(1000 * Math.pow(2, retries), 30000), computed after
\* retries++
BackoffDelay(r) == Min(1000 * Pow2(r), 30000)

\* connect(): the already-connected guard; a call that passes it enters
\* the loop with retries = 0
ConnCall(c) ==
  /\ calls[c].pc = "none"
  /\ \A b \in CallIds : b < c => calls[b].pc # "none"
  /\ calls' = [calls EXCEPT ![c] =
       IF AlreadyConnected
         THEN [@ EXCEPT !.pc = "returned", !.noop = TRUE]
         ELSE [@ EXCEPT !.pc = IF LoopContinues(0) THEN "open" ELSE "returned"]]
  /\ lossPending' = FALSE
  /\ UNCHANGED <<cfgVars, pedVars, busVars, cdcVars, svcVars, closedChans, lastCall, agentQueues,
                 agentGot, dlqHeld, envelopes>>

\* the catch block of connect(): retries++, the delay, the ceiling
Catch(c) ==
  LET r == calls[c].retries + 1
  IN calls' = [calls EXCEPT ![c] =
       IF CeilingReached(r)
         THEN [@ EXCEPT !.retries = r, !.pc = "failed"]
         ELSE [@ EXCEPT !.retries = r, !.pc = "waiting",
                        !.delays = Append(@, BackoffDelay(r))]]

\* the same with the attempt counted (the attempt's amqp.connect call)
CatchCounted(c) ==
  LET r == calls[c].retries + 1
  IN calls' = [calls EXCEPT ![c] =
       IF CeilingReached(r)
         THEN [@ EXCEPT !.retries = r, !.pc = "failed", !.attempts = @ + 1]
         ELSE [@ EXCEPT !.retries = r, !.pc = "waiting", !.attempts = @ + 1,
                        !.delays = Append(@, BackoffDelay(r))]]

\* this.connection = await amqp.connect(url)
ConnOpen(c, ok) ==
  /\ calls[c].pc = "open"
  /\ IF ok
       THEN /\ nextConn <= MaxConn
            /\ connection' = nextConn
            /\ openConns' = openConns \cup {nextConn}
            /\ nextConn' = nextConn + 1
            /\ calls' = [calls EXCEPT ![c].pc = "channel", ![c].attempts = @ + 1]
       ELSE /\ CatchCounted(c)
            /\ UNCHANGED <<connection, openConns, nextConn>>
  /\ UNCHANGED <<cfgVars, pedVars, cdcVars, svcVars, apiVars, closedChans, busKind, maxRetries, channel,
                 isConnected, handlers, connPc, retries, listening, declared,
                 bound, consumers, subOk, msgs, ready, deliv, dlq, deadLost>>

\* this.channel = await this.connection.createChannel(), on whatever
\* this.connection is by now; a failure leaves that connection as it is
ConnChannel(c, ok) ==
  /\ calls[c].pc = "channel"
  /\ IF ok
       THEN /\ connection \in openConns
            /\ channel' = connection
            /\ closedChans' = closedChans \ {connection}
            /\ calls' = [calls EXCEPT ![c].pc = "setup"]
       ELSE /\ Catch(c)
            /\ UNCHANGED <<channel, closedChans>>
  /\ UNCHANGED <<cfgVars, pedVars, cdcVars, svcVars, apiVars, busKind, maxRetries, connection, isConnected,
                 handlers, connPc, retries, openConns, listening, nextConn,
                 declared, bound, consumers, subOk, msgs, ready, deliv, dlq,
                 deadLost>>

\* prefetch, setupExchanges and setupDLQ on this.channel, then the
\* listeners on this.connection and isConnected = true; a refused
\* assertion makes the broker close the channel, not the connection
ConnSetup(c, ok) ==
  /\ calls[c].pc = "setup"
  /\ IF ok
       THEN /\ ChanLive(channel)
            /\ declared' = TRUE
            /\ listening' = IF connection \in openConns
                              THEN listening \cup {connection} ELSE listening
            /\ isConnected' = TRUE
            /\ calls' = [calls EXCEPT ![c].pc = "returned"]
            /\ UNCHANGED closedChans
       ELSE /\ closedChans' = IF ChanOpen(channel)
                                THEN closedChans \cup {channel} ELSE closedChans
            /\ Catch(c)
            /\ UNCHANGED <<declared, listening, isConnected>>
  /\ UNCHANGED <<cfgVars, pedVars, cdcVars, svcVars, apiVars, busKind, maxRetries, connection, channel, handlers,
                 connPc, retries, openConns, nextConn, bound, consumers, subOk,
                 msgs, ready, deliv, dlq, deadLost>>

\* the delay of the catch block has elapsed: back to the loop condition
ConnTimer(c) ==
  /\ calls[c].pc = "waiting"
  /\ calls' = [calls EXCEPT ![c].pc =
       IF LoopContinues(calls[c].retries) THEN "open" ELSE "returned"]
  /\ UNCHANGED <<cfgVars, pedVars, busVars, cdcVars, svcVars, apiVars, closedChans>>

\* disconnect() raises: this.channel.close() on a channel that is already
\* closed, or this.connection.close() on a connection that is
DisconnectRaises ==
  \/ channel # 0 /\ ~ChanLive(channel)
  \/ connection # 0 /\ connection \notin openConns

FlagAfterDisconnectTrue == TRUE
\* disconnect(): this.isConnected = false
FlagAfterDisconnect == FALSE

\* disconnect(): channel.close(), connection.close(), the flag; close on
\* a channel or connection that is already closed raises and the rest of
\* the body is skipped
Disconnect ==
  /\ \E c \in CallIds : calls[c].pc # "none"
  /\ IF channel # 0 /\ ~ChanLive(channel)
       THEN UNCHANGED <<closedChans, openConns, listening, isConnected>>
       ELSE IF connection # 0 /\ connection \notin openConns
         THEN /\ closedChans' = IF channel # 0
                                  THEN closedChans \cup {channel} ELSE closedChans
              /\ UNCHANGED <<openConns, listening, isConnected>>
         ELSE /\ closedChans' = IF channel # 0 /\ channel # connection
                                  THEN closedChans \cup {channel} ELSE closedChans
              /\ openConns' = openConns \ {connection}
              /\ listening' = listening \ {connection}
              /\ isConnected' = FlagAfterDisconnect
  /\ UNCHANGED <<cfgVars, pedVars, cdcVars, svcVars, apiVars, calls, busKind, maxRetries, connection, channel,
                 handlers, connPc, retries, nextConn, declared, bound,
                 consumers, subOk, msgs, ready, deliv, dlq, deadLost>>

NextConn ==
  \/ \E c \in CallIds : ConnCall(c)
  \/ \E c \in CallIds, ok \in BOOLEAN : ConnOpen(c, ok)
  \/ \E c \in CallIds, ok \in BOOLEAN : ConnChannel(c, ok)
  \/ \E c \in CallIds, ok \in BOOLEAN : ConnSetup(c, ok)
  \/ \E c \in CallIds : ConnTimer(c)
  \/ \E k \in 1..MaxConn : ConnectionLost(k)
  \/ Disconnect

\* ------------------------------------------------ calls of the interface
\* publish, publishBatch and subscribe as calls with an outcome for the
\* caller, on a bus whose connect() calls run step by step.

\* no call of the bus interface was made yet
NoApiCall == [op |-> "none", result |-> "none", cause |-> "none",
              items |-> <<>>, causes |-> <<>>, sent |-> <<>>,
              reported |-> {}, pending |-> FALSE, subscribers |-> {},
              fetched |-> <<>>, value |-> <<>>]

\* what publish() is handed: an envelope, an envelope for which the
\* channel's write buffer is full (channel.publish returns false, the
\* message is still queued and sent), a value JSON.stringify raises on
Items == {"envelope", "full", "unencodable"}

\* message types as the publisher gives them
PubTypes == TypeNames \cup {"criado"}

\* String.prototype.toLowerCase on the words of the model
Lower(w) ==
  CASE w = "Criado" -> "criado"
    [] w = "Cliente" -> "cliente"
    [] w = "Pedido" -> "pedido"
    [] OTHER -> w

\* SimpleEventBus.subscribe: bindQueue(queueName, 'agentic.events',
\* `*.${eventType.toLowerCase()}`)
AgentBindingKey(q) == <<"*", Lower(q.type)>>

\* agent queues the main topic exchange routes a key to
AgentRoute(key) == {q \in agentQueues : TopicMatch(AgentBindingKey(q), key)}

\* the channel hands the message to the broker: channel.publish on a
\* channel that is closed raises
SendRaises == ~ChanLive(channel)

\* publish(): "ok", or what keeps the call from returning normally
PublishCause(item) ==
  IF channel = 0 THEN "notInitialized"
  ELSE IF item = "unencodable" THEN "encode"
  ELSE IF SendRaises THEN "send"
  ELSE IF item = "full" /\ busKind = "command" THEN "backpressure"
  ELSE "ok"

\* channel.publish was called and took the message
Sends(item) == PublishCause(item) \in {"ok", "backpressure"}

PublishResultSwallowed(cause) == "returned"
\* publish(): the catch block logs and rethrows
PublishResult(cause) == IF cause = "ok" THEN "returned" ELSE "raised"

\* one publish(item) applied to st = [msgs, ready, got, sent, causes]
SendOne(st, entity, type, item) ==
  LET key == RoutingKey(entity, type)
      m == Len(st.msgs) + 1
      withCause == [st EXCEPT !.causes = Append(@, PublishCause(item))]
  IN IF Sends(item)
       THEN [withCause EXCEPT
               !.msgs = Append(@, [key |-> key, body |-> "envelope",
                                   tracked |-> /\ isConnected
                                               /\ type \in TypeNames
                                               /\ Subscribed(entity, type)]),
               !.ready = [q \in QueueNames |->
                            IF q \in Route(key) THEN Append(@[q], m) ELSE @[q]],
               !.got = @ \cup {<<q, m>> : q \in AgentRoute(key)},
               !.sent = Append(@, m)]
       ELSE withCause

RECURSIVE SendAllUntilFailure(_, _, _, _)
SendAllUntilFailure(st, entity, type, items) ==
  IF items = <<>> THEN st
  ELSE IF ~Sends(Head(items))
    THEN SendOne(st, entity, type, Head(items))
    ELSE SendAllUntilFailure(SendOne(st, entity, type, Head(items)),
                             entity, type, Tail(items))

\* the publish() calls of events.map((e) => this.publish(e)), in order;
\* each runs to its end before the next is made
RECURSIVE SendAll(_, _, _, _)
SendAll(st, entity, type, items) ==
  IF items = <<>> THEN st
  ELSE SendAll(SendOne(st, entity, type, Head(items)), entity, type, Tail(items))

BeforeSends == [msgs |-> msgs, ready |-> ready, got |-> agentGot,
                sent |-> <<>>, causes |-> <<>>]

\* handlers with a consumer on a queue the key is routed to
Consuming(key) ==
  {k.h : k \in {c \in consumers : ChanOpen(c.chan) /\ c.queue \in Route(key)}}

\* publish(event)
PublishCall(entity, type, item) ==
  LET st == SendOne(BeforeSends, entity, type, item)
  IN /\ Len(st.msgs) <= MaxSends
     /\ msgs' = st.msgs
     /\ ready' = st.ready
     /\ agentGot' = st.got
     /\ lastCall' = [NoApiCall EXCEPT
                       !.op = "publish",
                       !.result = PublishResult(st.causes[1]),
                       !.cause = st.causes[1],
                       !.items = <<item>>,
                       !.causes = st.causes,
                       !.sent = st.sent,
                       !.pending = lossPending,
                       !.subscribers = Consuming(RoutingKey(entity, type))]
     /\ UNCHANGED <<cfgVars, pedVars, cdcVars, connVars, svcVars, lossPending, agentQueues,
                    dlqHeld, envelopes, subOk, busKind, maxRetries, connection,
                    channel, isConnected, handlers, connPc, retries, openConns,
                    listening, nextConn, declared, bound, consumers, deliv,
                    dlq, deadLost>>

\* items of a batch whose publish() rejected
FailedItems(causes) == {i \in DOMAIN causes : causes[i] # "ok"}

\* publishBatch: the event bus waits with Promise.allSettled, logs a
\* warning and returns; the command bus waits with Promise.all and
\* rethrows the first rejection
BatchResult(kind, causes) ==
  IF kind = "command" /\ FailedItems(causes) # {} THEN "raised" ELSE "returned"

\* the items the outcome of publishBatch names as failed: its promise
\* carries no value, and the error the command bus rethrows carries no item
BatchReported(kind, causes) == {}

\* publishBatch(events)
PublishBatch(entity, type, items) ==
  LET st == SendAll(BeforeSends, entity, type, items)
  IN /\ Len(st.msgs) <= MaxSends
     /\ msgs' = st.msgs
     /\ ready' = st.ready
     /\ agentGot' = st.got
     /\ lastCall' = [NoApiCall EXCEPT
                       !.op = "publishBatch",
                       !.result = BatchResult(busKind, st.causes),
                       !.cause = IF FailedItems(st.causes) = {} THEN "ok" ELSE "items",
                       !.items = items,
                       !.causes = st.causes,
                       !.sent = st.sent,
                       !.reported = BatchReported(busKind, st.causes),
                       !.pending = lossPending]
     /\ UNCHANGED <<cfgVars, pedVars, cdcVars, connVars, svcVars, lossPending, agentQueues,
                    dlqHeld, envelopes, subOk, busKind, maxRetries, connection,
                    channel, isConnected, handlers, connPc, retries, openConns,
                    listening, nextConn, declared, bound, consumers, deliv,
                    dlq, deadLost>>

\* subscribe(): "ok", or what keeps the call from returning normally
SubscribeCause(outcome) ==
  IF channel = 0 THEN "notInitialized"
  ELSE IF ~ChanLive(channel) THEN "assertQueue"
  ELSE IF outcome = "consumeRaises" THEN "consume"
  ELSE "ok"

\* subscribe(handler, type): on a channel that is null or closed nothing is
\* declared and the handler is not stored; the catch block rethrows
SubscribeCall(h, type, outcome) ==
  LET cause == SubscribeCause(outcome)
  IN /\ IF cause \in {"notInitialized", "assertQueue"}
          THEN /\ outcome = "ok"
               /\ UNCHANGED <<busVars, cdcVars>>
          ELSE SubscribeBody(h, type, outcome)
     /\ lastCall' = [NoApiCall EXCEPT
                       !.op = "subscribe",
                       !.result = IF cause = "ok" THEN "returned" ELSE "raised",
                       !.cause = cause,
                       !.pending = lossPending]
     /\ UNCHANGED <<cfgVars, pedVars, connVars, svcVars, lossPending, agentQueues, agentGot,
                    dlqHeld, envelopes>>

\* sequences of at most n items
Batches(n) == UNION {[1..k -> Items] : k \in 0..n}

\* publish and subscribe on a bus whose connect() calls run step by step
\* and whose attempts succeed (failing attempts are the subject of SpecConn)
NextApi ==
  \/ \E c \in CallIds : ConnCall(c)
  \/ \E c \in CallIds : ConnOpen(c, TRUE)
  \/ \E c \in CallIds : ConnChannel(c, TRUE)
  \/ \E c \in CallIds : ConnSetup(c, TRUE)
  \/ \E k \in 1..MaxConn : ConnectionLost(k)
  \/ \E e \in EntityNames, t \in TypeNames, i \in Items : PublishCall(e, t, i)
  \/ \E h \in HandlerIds, t \in TypeNames, o \in SubscribeOutcomes : SubscribeCall(h, t, o)

\* publish and publishBatch on a bus that connects at the first attempt
NextBatch ==
  \/ ConnectCall
  \/ ConnectAttempt("ok")
  \/ \E k \in 1..MaxConn : ConnectionLost(k)
  \/ \E e \in EntityNames, t \in TypeNames, i \in Items : PublishCall(e, t, i)
  \/ \E e \in EntityNames, t \in TypeNames, b \in Batches(MaxBatch) : PublishBatch(e, t, b)

\* ------------------------------------------------- queues and consumers
\* the agents that run a SimpleEventBus of their own
AgentNames == {"produto-agent"}

\* handlers subscribed on one RabbitMQEventBus; entityType() is the same
\* for all of them
QueueHandlers == HandlerIds \cup {"h2"}

\* SimpleEventBus.subscribe(handler, type) of an agent, on the agent's own
\* channel: queue `${agentName}.${type}` bound to agentic.events
SimpleSubscribe(agent, type) ==
  /\ agentQueues' = agentQueues \cup {[agent |-> agent, type |-> type]}
  /\ UNCHANGED <<cfgVars, pedVars, busVars, cdcVars, connVars, svcVars, lastCall, lossPending,
                 agentGot, dlqHeld, envelopes>>

\* an event bus that connects at the first attempt, its subscribers, the
\* agents' subscriptions on the same exchange, and the consume callbacks
NextQueue ==
  \/ ConnectCall
  \/ ConnectAttempt("ok")
  \/ \E h \in QueueHandlers, t \in TypeNames : Subscribe(h, t, "ok")
  \/ \E a \in AgentNames, t \in PubTypes : SimpleSubscribe(a, t)
  \/ \E e \in EntityNames, t \in PubTypes : PublishCall(e, t, "envelope")
  \/ \E k \in consumers : Deliver(k)
  \/ \E i \in 1..MaxDeliv, ok \in BOOLEAN : HandlerReturns(i, ok)
  \/ \E i \in 1..MaxDeliv : RetryTimer(i)

\* ---------------------------------------------------- dead-letter queue
\* A message reaches the dead-letter queue (dead-lettered with a key the
\* binding matches, or sent to the queue by name); its id counts the
\* messages the queue has seen.
DlqPut(body) ==
  /\ declared
  /\ Len(dlq) + Len(dlqHeld) < MaxDlq
  /\ dlq' = Append(dlq, [msg |-> Len(dlq) + Len(dlqHeld) + 1, body |-> body])
  /\ UNCHANGED <<cdcVars, extVars, subOk, busKind, maxRetries, connection,
                 channel, isConnected, handlers, connPc, retries, openConns,
                 listening, nextConn, declared, bound, consumers, msgs, ready,
                 deliv, deadLost>>

\* JSON.parse(msg.content.toString()) returns
JsonParses(body) == body # "garbage"

\* the first n entries of a queue
FirstN(q, n) == SubSeq(q, 1, Min(n, Len(q)))

\* the loop of getDLQMessages: the entries channel.get fetched
Fetched(limit) == FirstN(dlq, limit)

\* the loop of getDLQMessages: the parsed values it pushed
ParsedOf(entries) == SelectSeq(entries, LAMBDA x : JsonParses(x.body))

\* channel.nack(messages[0] as unknown as amqp.Message, false, true):
\* messages[0] is the parsed body, which has no `fields`, so reading
\* fields.deliveryTag raises before anything is sent
NackOfParsedRaises == TRUE

\* entries a nack with requeue = true of the fetched messages would put
\* back; none when the nack raises or is never called
RequeuedByNacks(fetched, parsed) ==
  IF parsed = <<>> \/ NackOfParsedRaises THEN <<>> ELSE fetched

\* getDLQMessages(): "ok", or what keeps the call from returning normally
GetCause(limit) ==
  IF channel = 0 THEN "notInitialized"
  ELSE IF ~ChanLive(channel) THEN "get"
  ELSE IF ParsedOf(Fetched(limit)) # <<>> /\ NackOfParsedRaises THEN "nack"
  ELSE "ok"

\* getDLQMessages(limit)
GetDLQ(limit) ==
  LET cause == GetCause(limit)
      fetched == IF cause \in {"notInitialized", "get"} THEN <<>> ELSE Fetched(limit)
      parsed == ParsedOf(fetched)
      back == RequeuedByNacks(fetched, parsed)
      kept == IF back = <<>> THEN fetched ELSE <<>>
  IN /\ dlq' = back \o SubSeq(dlq, Len(fetched) + 1, Len(dlq))
     /\ dlqHeld' = dlqHeld \o [i \in 1..Len(kept) |->
                       [ch |-> channel, msg |-> kept[i].msg, body |-> kept[i].body]]
     /\ lastCall' = [NoApiCall EXCEPT
                       !.op = "getDLQMessages",
                       !.result = IF cause = "ok" THEN "returned" ELSE "raised",
                       !.cause = cause,
                       !.fetched = fetched,
                       !.value = IF cause = "ok" THEN parsed ELSE <<>>]
     /\ UNCHANGED <<cfgVars, pedVars, cdcVars, connVars, svcVars, lossPending, agentQueues,
                    agentGot, envelopes, subOk, busKind, maxRetries, connection,
                    channel, isConnected, handlers, connPc, retries, openConns,
                    listening, nextConn, declared, bound, consumers, msgs,
                    ready, deliv, deadLost>>

\* a bus that connects at the first attempt, the dead-letter queue filling
\* up and getDLQMessages calls
NextDlq ==
  \/ ConnectCall
  \/ ConnectAttempt("ok")
  \/ \E k \in 1..MaxConn : ConnectionLost(k)
  \/ \E b \in Bodies : DlqPut(b)
  \/ \E l \in 1..MaxLimit : GetDLQ(l)

\* --------------------------------------------- cursor service life cycle
\* start(), stop() and the poll() loops they start and end, step by step.
\* Every successful start() calls poll(), so there is a loop per start().
StartIds == 1..MaxStarts

\* a poll() loop that is not inside checkForChanges
LoopAt(pc) == [pc |-> pc, positions |-> [e \in CdcEntitySet |-> 0],
               entIdx |-> 1, queried |-> FALSE, rows |-> <<>>]

SvcInit ==
  /\ isRunning = FALSE
  /\ pool = "open"
  /\ busUp = FALSE
  /\ starts = [s \in StartIds |-> "none"]
  /\ stopPc = "none"
  /\ loops = [l \in StartIds |-> LoopAt("none")]
  /\ leaked = 0
  /\ cycleAfterStop = FALSE
  /\ inFlightAtStop = FALSE

ApiInit ==
  /\ lastCall = NoApiCall
  /\ lossPending = FALSE
  /\ agentQueues = {}
  /\ agentGot = {}
  /\ dlqHeld = <<>>
  /\ envelopes = [i \in RowIds |-> [n |-> 0, corrs |-> {}]]

PedidoIds == 1..MaxPedidos
CmdIds == 1..MaxCmds

\* the agent after its constructor; nothing stored, nothing delivered
PedFields ==
  /\ pedPc = "new"
  /\ agentChan = FALSE
  /\ pedRows = {}
  /\ pedItems = [p \in PedidoIds |-> 0]
  /\ pedCache = {}
  /\ pedEvents = {}
  /\ pedDeliv = <<>>
  /\ cmdRows = 0
  /\ cmdEvents = {}
  /\ cmdDone = [c \in CmdIds |-> "none"]

\* the entry point constructs the event bus and does not connect it
PedInit ==
  /\ PedFields
  /\ entryConnects = FALSE

ExtInit == ConnInit /\ SvcInit /\ ApiInit /\ PedInit

\* loops inside checkForChanges: each holds a client of the pool
InCycle == {l \in StartIds : loops[l].pc = "cycle"}

\* clients checked out of the pool
ClientsOut ==
  Cardinality(InCycle) + Cardinality({s \in StartIds : starts[s] = "db"}) + leaked

\* `while (this.isRunning)` and, when it holds, the start of
\* checkForChanges: pool.connect() (which rejects on a pool that is ending)
\* and the read of audit.cdc_position (ok: it did not raise); on an error
\* poll() logs and sleeps
LoopAfterTop(running, ok) ==
  IF ~running THEN LoopAt("exited")
  ELSE IF pool = "open" /\ ok
    THEN [pc |-> "cycle", positions |-> ReadPositions(cursor), entIdx |-> 1,
          queried |-> FALSE, rows |-> <<>>]
    ELSE LoopAt("sleep")

\* start(): pool.connect() for the SELECT 1 probe
SvcStartCall(s) ==
  /\ starts[s] = "none"
  /\ \A b \in StartIds : b < s => starts[b] # "none"
  /\ starts' = [starts EXCEPT ![s] = IF pool = "open" THEN "db" ELSE "failed"]
  /\ UNCHANGED <<isRunning, pool, busUp, stopPc, loops, leaked,
                 cycleAfterStop, inFlightAtStop>>
  /\ UNCHANGED <<cfgVars, pedVars, busVars, cdcVars, connVars, apiVars>>

\* start(): client.query('SELECT 1'), then client.release(); a query that
\* raises skips the release
SvcStartDb(s, ok) ==
  /\ starts[s] = "db"
  /\ starts' = [starts EXCEPT ![s] = IF ok THEN "bus" ELSE "failed"]
  /\ leaked' = IF ok THEN leaked ELSE leaked + 1
  /\ UNCHANGED <<isRunning, pool, busUp, stopPc, loops, cycleAfterStop,
                 inFlightAtStop>>
  /\ UNCHANGED <<cfgVars, pedVars, busVars, cdcVars, connVars, apiVars>>

\* start(): eventBus.connect(), isRunning = true, and poll(), which runs
\* up to its first await
SvcStartBus(s, ok, cyc) ==
  /\ starts[s] = "bus"
  /\ IF ok
       THEN /\ busUp' = TRUE
            /\ isRunning' = TRUE
            /\ starts' = [starts EXCEPT ![s] = "done"]
            /\ loops' = [loops EXCEPT ![s] = LoopAfterTop(TRUE, cyc)]
            /\ cycleAfterStop' = (cycleAfterStop \/ stopPc # "none")
       ELSE /\ cyc
            /\ starts' = [starts EXCEPT ![s] = "failed"]
            /\ UNCHANGED <<busUp, isRunning, loops, cycleAfterStop>>
  /\ UNCHANGED <<pool, stopPc, leaked, inFlightAtStop>>
  /\ UNCHANGED <<cfgVars, pedVars, busVars, cdcVars, connVars, apiVars>>

\* poll(): the sleep is over, back to `while (this.isRunning)`
LoopWake(l, cyc) ==
  /\ loops[l].pc = "sleep"
  /\ isRunning \/ cyc
  /\ loops' = [loops EXCEPT ![l] = LoopAfterTop(isRunning, cyc)]
  /\ cycleAfterStop' = (cycleAfterStop \/ (isRunning /\ stopPc # "none"))
  /\ UNCHANGED <<isRunning, pool, busUp, starts, stopPc, leaked, inFlightAtStop>>
  /\ UNCHANGED <<cfgVars, pedVars, busVars, cdcVars, connVars, apiVars>>

\* process<Entity>Changes of loop l: the SELECT; an error leaves
\* checkForChanges through `finally { client.release() }`
LoopQuery(l, ok) ==
  /\ loops[l].pc = "cycle"
  /\ ~loops[l].queried
  /\ LET e == CdcEntities[loops[l].entIdx]
     IN loops' = [loops EXCEPT ![l] =
          IF ok THEN [@ EXCEPT !.queried = TRUE,
                               !.rows = SortedRows(QueryRows(log, e, loops[l].positions[e]))]
          ELSE LoopAt("sleep")]
  /\ UNCHANGED <<isRunning, pool, busUp, starts, stopPc, leaked,
                 cycleAfterStop, inFlightAtStop>>
  /\ UNCHANGED <<cfgVars, pedVars, busVars, cdcVars, connVars, apiVars>>

\* process<Entity>Changes of loop l: one row; publish needs the bus
LoopRow(l, outcome) ==
  /\ loops[l].pc = "cycle"
  /\ loops[l].queried
  /\ loops[l].rows # <<>>
  /\ LET e == CdcEntities[loops[l].entIdx]
         r == Head(loops[l].rows)
     IN IF ~Translates(r)
          THEN /\ outcome = "ok"
               /\ loops' = [loops EXCEPT ![l].rows = Tail(@)]
               /\ UNCHANGED <<cursor, envelopes>>
          ELSE /\ Published(outcome) => busUp
               /\ cursor' = CursorAfterRow(cursor, e, r.id, outcome)
               /\ envelopes' = IF Published(outcome)
                                 THEN OneMoreEnvelope(envelopes, r.id)
                                 ELSE envelopes
               /\ loops' = [loops EXCEPT ![l] =
                    IF outcome = "ok" THEN [@ EXCEPT !.rows = Tail(@)]
                    ELSE LoopAt("sleep")]
  /\ UNCHANGED <<isRunning, pool, busUp, starts, stopPc, leaked,
                 cycleAfterStop, inFlightAtStop>>
  /\ UNCHANGED <<log, cdcPc, positions, entIdx, queried, rows, firstPub,
                 cyclePub, cycleDone, snapLog, cycles, curClean, prevClean,
                 insCur, insPrev, abortedBy>>
  /\ UNCHANGED <<cfgVars, pedVars, busVars, connVars, lastCall, lossPending, agentQueues,
                 agentGot, dlqHeld>>

\* the rows of an entity type are done: the next one, or the cycle is
\* over, the client is released and poll() sleeps
LoopFinishEntity(l) ==
  /\ loops[l].pc = "cycle"
  /\ loops[l].queried
  /\ loops[l].rows = <<>>
  /\ loops' = [loops EXCEPT ![l] =
       IF @.entIdx < Len(CdcEntities)
         THEN [@ EXCEPT !.entIdx = @ + 1, !.queried = FALSE]
         ELSE LoopAt("sleep")]
  /\ UNCHANGED <<isRunning, pool, busUp, starts, stopPc, leaked,
                 cycleAfterStop, inFlightAtStop>>
  /\ UNCHANGED <<cfgVars, pedVars, busVars, cdcVars, connVars, apiVars>>

\* stop(): this.isRunning = false and the call of pool.end()
StopCall ==
  /\ stopPc = "none"
  /\ starts[1] # "none"
  /\ isRunning' = FALSE
  /\ pool' = "ending"
  /\ stopPc' = "ending"
  /\ inFlightAtStop' = (InCycle # {})
  /\ UNCHANGED <<busUp, starts, loops, leaked, cycleAfterStop>>
  /\ UNCHANGED <<cfgVars, pedVars, busVars, cdcVars, connVars, apiVars>>

\* pool.end() resolves once every checked-out client is back
StopPoolEnded ==
  /\ stopPc = "ending"
  /\ ClientsOut = 0
  /\ pool' = "ended"
  /\ stopPc' = "disconnecting"
  /\ UNCHANGED <<isRunning, busUp, starts, loops, leaked, cycleAfterStop,
                 inFlightAtStop>>
  /\ UNCHANGED <<cfgVars, pedVars, busVars, cdcVars, connVars, apiVars>>

\* stop(): await this.eventBus.disconnect()
StopDisconnect ==
  /\ stopPc = "disconnecting"
  /\ busUp' = FALSE
  /\ stopPc' = "done"
  /\ UNCHANGED <<isRunning, pool, starts, loops, leaked, cycleAfterStop,
                 inFlightAtStop>>
  /\ UNCHANGED <<cfgVars, pedVars, busVars, cdcVars, connVars, apiVars>>

NextSvc ==
  \/ \E id \in RowIds, e \in CdcEntitySet, t \in RowEventTypes : InsertRow(id, e, t)
  \/ \E s \in StartIds : SvcStartCall(s)
  \/ \E s \in StartIds, ok \in BOOLEAN : SvcStartDb(s, ok)
  \/ \E s \in StartIds, ok \in BOOLEAN, cyc \in BOOLEAN : SvcStartBus(s, ok, cyc)
  \/ \E l \in StartIds, cyc \in BOOLEAN : LoopWake(l, cyc)
  \/ \E l \in StartIds, ok \in BOOLEAN : LoopQuery(l, ok)
  \/ \E l \in StartIds, o \in RowOutcomes : LoopRow(l, o)
  \/ \E l \in StartIds : LoopFinishEntity(l)
  \/ StopCall
  \/ StopPoolEnded
  \/ StopDisconnect

\* the service after construction; its bus is an event bus with the
\* default maxRetries (the constructor passes url and prefetch only)
InitCdc ==
  /\ BusInit
  /\ busKind = "event"
  /\ maxRetries = DefaultMaxRetries
  /\ CdcInit
  /\ ExtInit
  /\ retryDelayMs = NormRetryDelay(0)

\* --------------------------------------------------------- specifications
Init ==
  /\ BusInit
  /\ CdcInit
  /\ ExtInit
  /\ retryDelayMs = NormRetryDelay(0)
SpecBus == Init /\ [][NextBus]_vars

FairSpecBus ==
  /\ SpecBus
  /\ WF_vars(\E k \in consumers : Deliver(k))
  /\ WF_vars(\E i \in 1..MaxDeliv, ok \in BOOLEAN : HandlerReturns(i, ok))
  /\ WF_vars(\E i \in 1..MaxDeliv : RetryTimer(i))

SpecCdc == InitCdc /\ [][NextCdc]_vars

\* a bus after construction with the default maxRetries; connect() and
\* disconnect() of RabbitMQCommandBus are statement for statement those of
\* RabbitMQEventBus, so the connection model runs on the event bus
InitConn ==
  /\ Init
  /\ busKind = "event"
  /\ maxRetries = DefaultMaxRetries

SpecConn == InitConn /\ [][NextConn]_vars

SpecSvc == InitCdc /\ [][NextSvc]_vars

\* either bus class after construction with the default maxRetries
InitApi ==
  /\ Init
  /\ maxRetries = DefaultMaxRetries

SpecApi == InitApi /\ [][NextApi]_vars

SpecBatch == InitApi /\ [][NextBatch]_vars

SpecQueue == InitConn /\ [][NextQueue]_vars

SpecDlq == InitConn /\ [][NextDlq]_vars

\* awaited broker calls settle and the backoff timers fire
\* ----------------------------------------------------------- PedidoAgent
\* the agent as a handler of the event bus, and the message type it
\* subscribes to ('PedidoCriado')
AgentHandler == "h1"
AgentType == "Criado"

\* PedidoCriado envelopes: data.pedidoId, metadata.correlationId, data.itens
PedEnvelopes == [pedidoId : PedidoIds, corr : CorrIds, items : 1..MaxItems]

\* The entry point connects the event bus before it calls initialize()
\* (only an entry point that does so at all).
EntryConnect ==
  /\ entryConnects
  /\ pedPc = "new"
  /\ \/ ConnectCall
     \/ ConnectAttempt("ok")

\* initialize(): redisClient.connect(), SELECT NOW(), setupRabbitMQ(),
\* setupDatabase(), in this order; a step that raises ends initialize()
InitStep(ok) ==
  /\ pedPc \in {"new", "redis", "db", "rabbit"}
  /\ entryConnects => (isConnected /\ connPc = "idle")
  /\ pedPc' = IF ~ok THEN "failed"
              ELSE CASE pedPc = "new" -> "redis"
                     [] pedPc = "redis" -> "db"
                     [] pedPc = "db" -> "rabbit"
                     [] OTHER -> "tables"
  /\ agentChan' = (agentChan \/ (ok /\ pedPc = "db"))
  /\ UNCHANGED <<busVars, cdcVars, connVars, svcVars, apiVars, cfgVars,
                 entryConnects, pedRows, pedItems, pedCache, pedEvents,
                 pedDeliv, cmdRows, cmdEvents, cmdDone>>

\* subscribeToEvents(): eventBus.subscribe(this, 'PedidoCriado'); subscribe
\* raises at once on a bus without a channel
SubscribeToEvents(outcome) ==
  /\ pedPc = "tables"
  /\ IF channel = 0
       THEN /\ outcome = "ok"
            /\ pedPc' = "failed"
            /\ UNCHANGED <<busVars, cdcVars>>
       ELSE /\ SubscribeBody(AgentHandler, AgentType, outcome)
            /\ pedPc' = IF outcome = "ok" THEN "subscribed" ELSE "failed"
  /\ UNCHANGED <<connVars, svcVars, apiVars, cfgVars, entryConnects, agentChan,
                 pedRows, pedItems, pedCache, pedEvents, pedDeliv, cmdRows,
                 cmdEvents, cmdDone>>

\* initialize(): commandBus.connect(), then the three commandBus.subscribe
\* calls
CommandBusStep(ok) ==
  /\ pedPc \in {"subscribed", "commands"}
  /\ pedPc' = IF ~ok THEN "failed"
              ELSE IF pedPc = "subscribed" THEN "commands" ELSE "ready"
  /\ UNCHANGED <<busVars, cdcVars, connVars, svcVars, apiVars, cfgVars,
                 entryConnects, agentChan, pedRows, pedItems, pedCache,
                 pedEvents, pedDeliv, cmdRows, cmdEvents, cmdDone>>

\* the consumer that subscribe() registered for the agent
AgentConsumes ==
  \E k \in consumers : k.h = AgentHandler /\ ChanOpen(k.chan)

\* consume callback: the handler's promise resolved, the delivery is acked
AttemptSucceeds(d) == [d EXCEPT !.pc = "done", !.acks = @ + 1]

\* handleWithRetry: the handler's promise rejected; another attempt after
\* the delay, or the rejection reaches the consume callback, which nacks
AttemptFails(d) ==
  IF ShouldRetry(d.attempt, maxRetries)
    THEN [d EXCEPT !.pc = "waiting", !.failures = @ + 1]
    ELSE [d EXCEPT !.pc = "done", !.failures = @ + 1, !.nacks = @ + 1]

\* another invocation holds the uncommitted insert of this pedido id: the
\* INSERT ... ON CONFLICT waits for that transaction to end
RowLocked(i) ==
  \E j \in DOMAIN pedDeliv :
    /\ j # i
    /\ pedDeliv[j].step = "inserted"
    /\ pedDeliv[j].env.pedidoId = pedDeliv[i].env.pedidoId

\* an earlier delivery of this envelope was handled to completion: the
\* pedido stored, PedidoProcessado published, the delivery acked
CompletedRunOf(env) ==
  \E j \in DOMAIN pedDeliv :
    /\ pedDeliv[j].env = env
    /\ pedDeliv[j].acks = 1
    /\ \E e \in pedEvents : e.by = j

\* The broker hands a PedidoCriado envelope to the agent's consumer; the
\* callback parses it and handleWithRetry calls handle(event) (attempt 1).
PedDeliver(env) ==
  /\ AgentConsumes
  /\ Len(pedDeliv) < MaxPedDeliv
  /\ pedDeliv' = Append(pedDeliv,
       [env |-> env, attempt |-> 1, pc |-> "handling", step |-> "start",
        failures |-> 0, acks |-> 0, nacks |-> 0, found |-> FALSE,
        openTx |-> FALSE, afterCommit |-> FALSE,
        repeat |-> CompletedRunOf(env)])
  /\ UNCHANGED <<busVars, cdcVars, connVars, svcVars, apiVars, cfgVars,
                 entryConnects, pedPc, agentChan, pedRows, pedItems, pedCache,
                 pedEvents, cmdRows, cmdEvents, cmdDone>>

\* handlePedidoCriado: dbPool.connect(), BEGIN, INSERT INTO
\* agent_pedidos.pedidos ... ON CONFLICT (id) DO NOTHING RETURNING *.
\* When the row exists the result is empty, the if-block with the item
\* inserts, COMMIT, the cache write and the publish is skipped, and the
\* finally block releases the client: the handler returns normally and the
\* transaction it began was neither committed nor rolled back.
PedStart(i, ok) ==
  /\ i \in DOMAIN pedDeliv
  /\ pedDeliv[i].pc = "handling"
  /\ pedDeliv[i].step = "start"
  /\ ~RowLocked(i)
  /\ LET d == pedDeliv[i]
     IN pedDeliv' = [pedDeliv EXCEPT ![i] =
          IF ~ok THEN AttemptFails(d)
          ELSE IF d.env.pedidoId \in pedRows
            THEN AttemptSucceeds([d EXCEPT !.found = TRUE, !.openTx = TRUE,
                                           !.step = "returned"])
            ELSE [d EXCEPT !.step = "inserted"]]
  /\ UNCHANGED <<busVars, cdcVars, connVars, svcVars, apiVars, cfgVars,
                 entryConnects, pedPc, agentChan, pedRows, pedItems, pedCache,
                 pedEvents, cmdRows, cmdEvents, cmdDone>>

\* handlePedidoCriado: the item inserts and COMMIT; when a statement raises
\* the catch block rolls back and rethrows
PedCommit(i, ok) ==
  /\ i \in DOMAIN pedDeliv
  /\ pedDeliv[i].pc = "handling"
  /\ pedDeliv[i].step = "inserted"
  /\ LET d == pedDeliv[i]
     IN IF ok
          THEN /\ pedRows' = pedRows \cup {d.env.pedidoId}
               /\ pedItems' = [pedItems EXCEPT ![d.env.pedidoId] = @ + d.env.items]
               /\ pedDeliv' = [pedDeliv EXCEPT ![i] = [d EXCEPT !.step = "committed"]]
          ELSE /\ pedDeliv' = [pedDeliv EXCEPT ![i] = AttemptFails(d)]
               /\ UNCHANGED <<pedRows, pedItems>>
  /\ UNCHANGED <<busVars, cdcVars, connVars, svcVars, apiVars, cfgVars,
                 entryConnects, pedPc, agentChan, pedCache, pedEvents,
                 cmdRows, cmdEvents, cmdDone>>

\* handlePedidoCriado: redisClient.setEx after the commit; when it raises
\* the catch block's ROLLBACK finds no transaction and the error is rethrown
PedCacheWrite(i, ok) ==
  /\ i \in DOMAIN pedDeliv
  /\ pedDeliv[i].pc = "handling"
  /\ pedDeliv[i].step = "committed"
  /\ LET d == pedDeliv[i]
     IN IF ok
          THEN /\ pedCache' = pedCache \cup {d.env.pedidoId}
               /\ pedDeliv' = [pedDeliv EXCEPT ![i] = [d EXCEPT !.step = "cached"]]
          ELSE /\ pedDeliv' = [pedDeliv EXCEPT ![i] =
                      AttemptFails([d EXCEPT !.afterCommit = TRUE])]
               /\ UNCHANGED pedCache
  /\ UNCHANGED <<busVars, cdcVars, connVars, svcVars, apiVars, cfgVars,
                 entryConnects, pedPc, agentChan, pedRows, pedItems, pedEvents,
                 cmdRows, cmdEvents, cmdDone>>

\* publishPedidoProcessado(pedido, correlationId) on the agent's own
\* channel; it raises without a channel and when channel.publish raises
PedPublish(i, ok) ==
  /\ i \in DOMAIN pedDeliv
  /\ pedDeliv[i].pc = "handling"
  /\ pedDeliv[i].step = "cached"
  /\ LET d == pedDeliv[i]
     IN IF ok /\ agentChan
          THEN /\ pedEvents' = pedEvents \cup
                    {[pedidoId |-> d.env.pedidoId,
                      corr |-> HopCorrelation(d.env.corr), by |-> i]}
               /\ pedDeliv' = [pedDeliv EXCEPT ![i] =
                      AttemptSucceeds([d EXCEPT !.step = "returned"])]
          ELSE /\ pedDeliv' = [pedDeliv EXCEPT ![i] =
                      AttemptFails([d EXCEPT !.afterCommit = TRUE])]
               /\ UNCHANGED pedEvents
  /\ UNCHANGED <<busVars, cdcVars, connVars, svcVars, apiVars, cfgVars,
                 entryConnects, pedPc, agentChan, pedRows, pedItems, pedCache,
                 cmdRows, cmdEvents, cmdDone>>

\* handleWithRetry: the delay has elapsed, handle(event) is called again
PedRetry(i) ==
  /\ i \in DOMAIN pedDeliv
  /\ pedDeliv[i].pc = "waiting"
  /\ pedDeliv' = [pedDeliv EXCEPT ![i] =
       [@ EXCEPT !.pc = "handling", !.step = "start", !.attempt = @ + 1]]
  /\ UNCHANGED <<busVars, cdcVars, connVars, svcVars, apiVars, cfgVars,
                 entryConnects, pedPc, agentChan, pedRows, pedItems, pedCache,
                 pedEvents, cmdRows, cmdEvents, cmdDone>>

CommandOutcomes == {"ok", "dbRaises", "publishRaises"}

\* CriarPedidoCommandHandler.handle(command) under the command bus's consume
\* callback: the pedido and its items are inserted and committed, then
\* criarPedidoCriadoEvent(..., correlationId, 'PedidoAgent') is published on
\* the event bus; a rejection is nacked at once
HandleCriarPedido(c, corr, outcome) ==
  /\ pedPc = "ready"
  /\ cmdDone[c] = "none"
  /\ cmdRows' = IF outcome = "dbRaises" THEN cmdRows ELSE cmdRows + 1
  /\ cmdEvents' = IF outcome = "ok"
                    THEN cmdEvents \cup {[cmd |-> c, from |-> corr,
                                          corr |-> HopCorrelation(corr),
                                          source |-> "PedidoAgent"]}
                    ELSE cmdEvents
  /\ cmdDone' = [cmdDone EXCEPT ![c] = IF outcome = "ok" THEN "acked" ELSE "nacked"]
  /\ UNCHANGED <<busVars, cdcVars, connVars, svcVars, apiVars, cfgVars,
                 entryConnects, pedPc, agentChan, pedRows, pedItems, pedCache,
                 pedEvents, pedDeliv>>

NextPedido ==
  \/ EntryConnect
  \/ \E ok \in BOOLEAN : InitStep(ok)
  \/ \E o \in SubscribeOutcomes : SubscribeToEvents(o)
  \/ \E ok \in BOOLEAN : CommandBusStep(ok)
  \/ \E env \in PedEnvelopes : PedDeliver(env)
  \/ \E i \in 1..MaxPedDeliv, ok \in BOOLEAN : PedStart(i, ok)
  \/ \E i \in 1..MaxPedDeliv, ok \in BOOLEAN : PedCommit(i, ok)
  \/ \E i \in 1..MaxPedDeliv, ok \in BOOLEAN : PedCacheWrite(i, ok)
  \/ \E i \in 1..MaxPedDeliv, ok \in BOOLEAN : PedPublish(i, ok)
  \/ \E i \in 1..MaxPedDeliv : PedRetry(i)
  \/ \E c \in CmdIds, corr \in CorrIds, o \in CommandOutcomes :
       HandleCriarPedido(c, corr, o)

\* the agent constructed by its entry point (which does not connect the
\* event bus) or by an entry point that connects the bus first
InitPedido ==
  /\ BusInit
  /\ busKind = "event"
  /\ maxRetries = DefaultMaxRetries
  /\ retryDelayMs = NormRetryDelay(0)
  /\ CdcInit
  /\ ConnInit
  /\ SvcInit
  /\ ApiInit
  /\ PedFields
  /\ entryConnects \in BOOLEAN

SpecPedido == InitPedido /\ [][NextPedido]_vars

\* correlation specification: the cursor service translates its rows, then
\* the agent is started, handles commands and then envelopes, one at a time
\* (the services share no state, every call succeeds; Cliente rows and
\* one-item pedidos only)
CaughtUp ==
  /\ cdcPc = "idle"
  /\ Cardinality(log) = MaxRows
  /\ \A r \in log : Translates(r) /\ envelopes[r.id].n >= 1

NextHops ==
  \/ /\ pedPc = "new"
     /\ connPc = "idle"
     /\ connection = 0
     /\ \/ InsertRow(Cardinality(log) + 1, "Cliente", "INSERT")
        \/ StartCycle(TRUE)
        \/ QueryEntity(TRUE)
        \/ ProcessRow("ok")
        \/ FinishEntity
  \/ /\ CaughtUp
     /\ \/ EntryConnect
        \/ InitStep(TRUE)
        \/ SubscribeToEvents("ok")
        \/ CommandBusStep(TRUE)
        \/ /\ pedPc = "ready"
           /\ \A j \in DOMAIN pedDeliv : pedDeliv[j].pc = "done"
           /\ \E env \in PedEnvelopes : env.items = 1 /\ PedDeliver(env)
        \/ \E i \in 1..MaxPedDeliv : PedStart(i, TRUE)
        \/ \E i \in 1..MaxPedDeliv : PedCommit(i, TRUE)
        \/ \E i \in 1..MaxPedDeliv : PedCacheWrite(i, TRUE)
        \/ \E i \in 1..MaxPedDeliv : PedPublish(i, TRUE)
        \/ /\ pedDeliv = <<>>
           /\ \E c \in CmdIds, corr \in CorrIds : HandleCriarPedido(c, corr, "ok")

InitHops ==
  /\ InitPedido
  /\ entryConnects

SpecHops == InitHops /\ [][NextHops]_vars

\* ------------------------------------------------------------ unsubscribe
\* handlers.indexOf(handler): the first position of h, 0 when it is absent
\* (indexOf's -1)
IndexOf(hs, h) ==
  IF \E i \in DOMAIN hs : hs[i] = h
    THEN CHOOSE i \in DOMAIN hs : hs[i] = h /\ \A j \in 1..(i - 1) : hs[j] # h
    ELSE 0

\* event bus: handlers.splice(index, 1) when index > -1;
\* command bus: handlers.filter((h) => h !== handler)
Unregister(kind, hs, h) ==
  IF kind = "event"
    THEN IF IndexOf(hs, h) > 0
           THEN SubSeq(hs, 1, IndexOf(hs, h) - 1) \o SubSeq(hs, IndexOf(hs, h) + 1, Len(hs))
           ELSE hs
    ELSE SelectSeq(hs, LAMBDA x : x # h)

\* unsubscribe(handler, type): the registry entry goes; the channel, the
\* queue, its binding and its consumer are not touched
Unsubscribe(h, type) ==
  /\ handlers' = [handlers EXCEPT ![type] = Unregister(busKind, @, h)]
  /\ lastCall' = [NoApiCall EXCEPT !.op = "unsubscribe", !.result = "returned",
                                   !.value = <<h, type>>]
  /\ UNCHANGED <<cdcVars, connVars, svcVars, cfgVars, pedVars, lossPending,
                 agentQueues, agentGot, dlqHeld, envelopes, subOk, busKind,
                 maxRetries, connection, channel, isConnected, connPc, retries,
                 openConns, listening, nextConn, declared, bound, consumers,
                 msgs, ready, deliv, dlq, deadLost>>

NextUnsub ==
  \/ ConnectCall
  \/ ConnectAttempt("ok")
  \/ \E h \in HandlerIds, t \in TypeNames : Subscribe(h, t, "ok")
  \/ \E h \in HandlerIds, t \in TypeNames : Unsubscribe(h, t)
  \/ \E e \in EntityNames, t \in TypeNames : Publish(e, t)
  \/ \E k \in consumers : Deliver(k)
  \/ \E i \in 1..MaxDeliv, ok \in BOOLEAN : HandlerReturns(i, ok)
  \/ \E i \in 1..MaxDeliv : RetryTimer(i)

SpecUnsub == InitApi /\ [][NextUnsub]_vars

\* retry specification: an event bus with any configured retry count and
\* retry delay, one handler, published envelopes and their deliveries
RetryDelayCfgs == {0, 1000}

InitRetry ==
  /\ BusFields
  /\ busKind = "event"
  /\ \E cfg \in 0..MaxAttemptsCfg : maxRetries = NormMaxRetries(cfg)
  /\ \E cfg \in RetryDelayCfgs : retryDelayMs = NormRetryDelay(cfg)
  /\ CdcInit
  /\ ExtInit

NextRetry ==
  \/ ConnectCall
  \/ ConnectAttempt("ok")
  \/ \E h \in HandlerIds, t \in TypeNames : Subscribe(h, t, "ok")
  \/ \E e \in EntityNames, t \in TypeNames : Publish(e, t)
  \/ \E k \in consumers : Deliver(k)
  \/ \E i \in 1..MaxDeliv, ok \in BOOLEAN : HandlerReturns(i, ok)
  \/ \E i \in 1..MaxDeliv : RetryTimer(i)

SpecRetry == InitRetry /\ [][NextRetry]_vars

FairSpecConn ==
  /\ SpecConn
  /\ \A c \in CallIds :
       /\ WF_vars(\E ok \in BOOLEAN : ConnOpen(c, ok))
       /\ WF_vars(\E ok \in BOOLEAN : ConnChannel(c, ok))
       /\ WF_vars(\E ok \in BOOLEAN : ConnSetup(c, ok))
       /\ WF_vars(ConnTimer(c))

\* the steps of the poll loop (everything but the writers of the log)
LoopStep ==
  \/ \E ok \in BOOLEAN : StartCycle(ok)
  \/ \E ok \in BOOLEAN : QueryEntity(ok)
  \/ \E o \in RowOutcomes : ProcessRow(o)
  \/ FinishEntity

\* the entity types checkForChanges processes after the first one
LaterEntities == {CdcEntities[j] : j \in 2..Len(CdcEntities)}

\* The poll loop keeps running (setTimeout fires, awaited calls settle), a
\* cycle start succeeds again and again, and for the entity types after the
\* first one the query, and the calls made for each row, succeed whenever
\* they are tried again and again; the first entity type may fail on every
\* tick.
FairSpecCdc ==
  /\ SpecCdc
  /\ WF_vars(LoopStep)
  /\ SF_vars(StartCycle(TRUE))
  /\ \A e \in LaterEntities :
       /\ SF_vars(CdcEntities[entIdx] = e /\ QueryEntity(TRUE))
       /\ \A i \in RowIds :
            SF_vars(/\ CdcEntities[entIdx] = e
                    /\ rows # <<>>
                    /\ Head(rows).id = i
                    /\ ProcessRow("ok"))

\* ================================================================ claims
Delivs == DOMAIN deliv

\* the handler failed on every attempt made for delivery d
HandlerFailedThroughout(d) ==
  d.pc = "done" /\ ~d.succeeded /\ d.invocations >= 1

\* C1: every delivery gets exactly one acknowledgement call, an ack or a
\* nack: never both while it is processed, and exactly one once the consume
\* callback is through with it, whatever parsing, the handler and the
\* broker calls did.
C1_ExactlyOneAckOrNack ==
  \A i \in Delivs :
    /\ deliv[i].acks + deliv[i].nacks <= 1
    /\ deliv[i].pc = "done" => deliv[i].acks + deliv[i].nacks = 1

\* C2: on the event bus a handler that fails k < maxRetries times and then
\* succeeds was called k + 1 times, and the delivery got one ack and no nack.
C2_RetryThenSuccess ==
  busKind = "event" =>
    \A i \in Delivs :
      (deliv[i].pc = "done" /\ deliv[i].succeeded) =>
        /\ deliv[i].failures < maxRetries
        /\ deliv[i].invocations = deliv[i].failures + 1
        /\ deliv[i].acks = 1
        /\ deliv[i].nacks = 0

\* C3: on the event bus the handler is never called more than maxRetries
\* times for a delivery, and when it failed every time it was called
\* exactly maxRetries times and the delivery got one nack with
\* requeue = false and no ack.
C3_ExhaustedRetriesNack ==
  busKind = "event" =>
    \A i \in Delivs :
      /\ deliv[i].invocations <= maxRetries
      /\ HandlerFailedThroughout(deliv[i]) =>
           /\ deliv[i].invocations = maxRetries
           /\ deliv[i].failures = maxRetries
           /\ deliv[i].nacks = 1
           /\ deliv[i].requeueArgs = {FALSE}
           /\ deliv[i].acks = 0

\* C3 witness: with the default maxRetries the handler failed three times
\* and the delivery was nacked.
C3_Witness ==
  /\ busKind = "event"
  /\ maxRetries = DefaultMaxRetries
  /\ \E i \in Delivs :
       /\ HandlerFailedThroughout(deliv[i])
       /\ deliv[i].invocations = 3
       /\ deliv[i].nacks = 1

\* C4: a message the dispatcher nacked without requeue (the nack reached the
\* broker) is in the dead-letter queue exactly once, its body unchanged.
C4_DeadLetteredOnce ==
  \A i \in Delivs :
    deliv[i].settled = "dead" =>
      Cardinality({j \in DOMAIN dlq :
                     /\ dlq[j].msg = deliv[i].msg
                     /\ dlq[j].body = msgs[deliv[i].msg].body}) = 1

\* C5: a delivery whose body cannot be deserialized never reaches the
\* handler, is never retried or delayed, and gets exactly one nack with
\* requeue = false.
C5_MalformedIsNackedAtOnce ==
  \A i \in Delivs :
    ~Parses(msgs[deliv[i].msg].body) =>
      /\ deliv[i].pc = "done"
      /\ deliv[i].invocations = 0
      /\ deliv[i].attempt = 1
      /\ deliv[i].acks = 0
      /\ deliv[i].nacks = 1
      /\ deliv[i].requeueArgs = {FALSE}

\* C5 witness: a body that is not JSON was delivered and nacked, and the
\* nack reached the broker.
C5_Witness ==
  \E i \in Delivs :
    /\ msgs[deliv[i].msg].body = "garbage"
    /\ deliv[i].nacks = 1
    /\ deliv[i].settled = "dead"

\* the handler was called with message m
Invoked(m) == \E i \in Delivs : deliv[i].msg = m /\ deliv[i].invocations >= 1

\* C6: an envelope published while the bus is connected and a handler of
\* its entity is subscribed for its type is eventually handed to the
\* handler, at the latest while the bus stays connected.
C6_AtLeastOnce ==
  busKind = "event" =>
    \A m \in 1..MaxMsgs :
      (m \in DOMAIN msgs /\ msgs[m].tracked /\ isConnected)
        ~> (Invoked(m) \/ ~isConnected)

\* ids handed to the bus in the current cycle, over all entity types
CyclePublished == UNION {cyclePub[e] : e \in CdcEntitySet}

\* C7: the stored cursor of an entity type is the id of a row of that type
\* whose event publish has returned; a publish that raised left it as it was.
C7_CursorOnlyAfterPublish ==
  \A e \in CdcEntitySet :
    cursor[e] # 0 =>
      \E i \in DOMAIN firstPub : firstPub[i] = [id |-> cursor[e], entity |-> e]

\* C7 witness: a cycle ended on a publish that raised while the cursor of
\* that entity type already stood at an earlier row.
C7_Witness ==
  /\ abortedBy = "publish"
  /\ cursor[CdcEntities[entIdx]] # 0

\* rows of entity type e, as its query saw the log, beyond the cursor read
\* at the start of the cycle
BeyondCursor(e) ==
  {r \in snapLog[e] : r.entity = e /\ (positions[e] = 0 \/ r.id > positions[e])}

C9_AscendingFirstPublication ==
  \A i, j \in DOMAIN firstPub :
    (i < j /\ firstPub[i].entity = firstPub[j].entity) =>
      firstPub[i].id < firstPub[j].id

C12_FailureIsolation ==
  (cdcPc = "idle" /\ abortedBy \in {"query", "publish"}) =>
    \A j \in DOMAIN CdcEntities : j > entIdx => cycleDone[CdcEntities[j]]

\* INSERT rows of the entity types after the first one
LaterInsertRows ==
  {[id |-> i, entity |-> e, etype |-> "INSERT"] : i \in RowIds, e \in LaterEntities}

\* C13: an INSERT row that lies beyond the cursor of its entity type is
\* eventually published, given that the loop keeps running and that query
\* and publish for the row's own entity type succeed when tried again and
\* again, even if another entity type fails on every tick.
C13_EventuallyPublished ==
  \A r \in LaterInsertRows :
    (r \in log /\ r.id > cursor[r.entity]) ~> (r.id \in Handed)

\* the broker-facing state of the bus
ConnState == <<connection, channel, isConnected, openConns, listening,
               nextConn, declared, closedChans, handlers>>

\* C16: a connect() call made while the bus is connected returns at once:
\* it opens no connection or channel, asserts no topology, adds no listener
\* and leaves the bus state as it was.
C16_ConnectIdempotent ==
  [][\A c \in CallIds :
       (calls[c].pc = "none" /\ calls'[c].pc # "none"
          /\ isConnected /\ connection # 0) =>
         /\ calls'[c].pc = "returned"
         /\ calls'[c].attempts = 0
         /\ UNCHANGED ConnState]_vars

\* C16 witness: a call returned through the already-connected guard.
C16_Witness ==
  \E c \in CallIds :
    calls[c].noop /\ calls[c].pc = "returned" /\ isConnected

\* a connect() call that is still running / that has ended
Active(c) == calls[c].pc \in {"open", "channel", "setup", "waiting"}
Ended(c) == calls[c].pc \in {"returned", "failed"}

\* C17: a connect() call makes at most 5 attempts, returns on the first
\* attempt that succeeds, raises once 5 attempts have failed and makes no
\* attempt after that; every call ends.
C17_ConnectTerminates ==
  /\ [](\A c \in CallIds :
          /\ calls[c].attempts <= ConnectMaxRetries
          /\ calls[c].retries <= ConnectMaxRetries
          /\ calls[c].pc = "failed" =>
               /\ calls[c].retries = ConnectMaxRetries
               /\ calls[c].attempts = ConnectMaxRetries
          /\ (calls[c].pc = "returned" /\ ~calls[c].noop) =>
               /\ calls[c].retries < ConnectMaxRetries
               /\ calls[c].attempts = calls[c].retries + 1
          /\ Active(c) => calls[c].retries < ConnectMaxRetries)
  /\ \A c \in CallIds : Active(c) ~> Ended(c)

\* C17 witness: a call raised after five failed attempts.
C17_Witness ==
  \E c \in CallIds :
    /\ calls[c].pc = "failed"
    /\ calls[c].retries = 5

\* C18 as stated: the k-th delay of a connect() call is
\* min(1s * 2^(k-1), 30s), that is 1s, 2s, 4s, 8s, 16s, and the call raises
\* only after five delays.
C18_BackoffFromOneSecond ==
  \A c \in CallIds :
    /\ \A k \in DOMAIN calls[c].delays :
         calls[c].delays[k] = Min(1000 * Pow2(k - 1), 30000)
    /\ calls[c].pc = "failed" => Len(calls[c].delays) = 5

\* C18 amended: the k-th delay is min(1s * 2^k, 30s), that is 2s, 4s, 8s,
\* 16s, and the fifth failure raises with no further delay.
C18_BackoffFromTwoSeconds ==
  \A c \in CallIds :
    /\ \A k \in DOMAIN calls[c].delays :
         calls[c].delays[k] = Min(1000 * Pow2(k), 30000)
    /\ calls[c].pc = "failed" =>
         /\ calls[c].delays = <<2000, 4000, 8000, 16000>>
         /\ calls[c].retries = 5

\* C18 witness: a call raised after waiting 2s, 4s, 8s and 16s.
C18_Witness ==
  \E c \in CallIds :
    /\ calls[c].pc = "failed"
    /\ calls[c].delays = <<2000, 4000, 8000, 16000>>

\* C19: the broker holds no open connection of the bus other than the one
\* this.connection refers to.
C19_OneOpenConnection ==
  \A k \in openConns : k = connection

C11_CursorMonotone ==
  [][\A e \in CdcEntitySet : cursor'[e] >= cursor[e]]_vars

\* C14: at most one scan cycle of the service is in progress at any time.
C14_CyclesNeverOverlap ==
  Cardinality(InCycle) <= 1

\* C15: a scan cycle in flight has the bus connected and its database
\* client open until it is over, and when a cycle was in flight at the
\* call of stop() no checkForChanges is called after that call.
C15_StopLetsCycleFinish ==
  /\ \A l \in InCycle : busUp /\ pool # "ended"
  /\ inFlightAtStop => ~cycleAfterStop

\* ------------------------------------------------------------- C21 .. C30
\* C21: after a connection loss has set isConnected to false, and before
\* any new connect(), the next publish or subscribe call fails with an error
\* to the caller; publish never returns normally without having handed its
\* message to a live channel.
C21_CallAfterLossFails ==
  /\ (lastCall.op \in {"publish", "subscribe"} /\ lastCall.pending)
       => lastCall.result = "raised"
  /\ (lastCall.op = "publish" /\ lastCall.result = "returned")
       => lastCall.sent # <<>>

\* C22: disconnect() is safe to call more than once: a call made right
\* after a disconnect() that completed returns normally, a call on a bus
\* that never connected returns normally, and a call that completes leaves
\* the bus disconnected with channel and connection closed.
C22_DisconnectTwice ==
  /\ [][(Disconnect /\ ~DisconnectRaises)
          => /\ ~DisconnectRaises'
             /\ ~isConnected'
             /\ ~ChanLive(channel)'
             /\ connection \notin openConns']_vars
  /\ [](connection = 0 /\ channel = 0 => ~DisconnectRaises)

\* the causes C23 names: channel not ready, encoding failure, send raising
LocalSendFailures == {"notInitialized", "encode", "send"}

\* C23: publish makes at most one broker send per call and never retries;
\* when the local send cannot be made (the bus was never connected, the
\* value cannot be encoded, the channel's send raises) the error reaches
\* the caller, nothing is enqueued and the bus state is unchanged.
C23_PublishFailsLocally ==
  /\ [](lastCall.op = "publish" =>
          /\ Len(lastCall.sent) <= 1
          /\ lastCall.cause \in LocalSendFailures =>
               (lastCall.result = "raised" /\ lastCall.sent = <<>>))
  /\ [][\A e \in EntityNames, t \in TypeNames, i \in Items :
          PublishCall(e, t, i) =>
            /\ Len(msgs') <= Len(msgs) + 1
            /\ PublishCause(i) \in LocalSendFailures =>
                 UNCHANGED <<busVars, agentGot>>]_vars

\* publish was called on a channel that a connection loss had closed, and
\* it raised
C23_Witness ==
  /\ lastCall.op = "publish"
  /\ lastCall.cause = "send"
  /\ lastCall.result = "raised"
  /\ channel # 0

\* C24: publishBatch is independent per item: whichever items fail, a send
\* is attempted for every item of the batch and every item whose send
\* succeeds is handed to the broker, in the order of the batch; a failing
\* item neither stops the later items nor undoes the earlier ones.
C24_BatchPerItem ==
  /\ [](lastCall.op = "publishBatch" =>
          LET n == Len(lastCall.sent)
          IN /\ Len(lastCall.causes) = Len(lastCall.items)
             /\ \A i \in DOMAIN lastCall.items :
                  lastCall.items[i] = "unencodable" => lastCall.causes[i] # "ok"
             /\ n = Cardinality({i \in DOMAIN lastCall.items :
                                   lastCall.causes[i] \in {"ok", "backpressure"}})
             /\ \A j \in 1..n : lastCall.sent[j] = Len(msgs) - n + j
             /\ n <= Len(msgs))
  /\ [][\A j \in DOMAIN msgs : j \in DOMAIN msgs' /\ msgs'[j] = msgs[j]]_vars

\* a batch whose first item failed and whose second item was sent
C24_Witness ==
  /\ lastCall.op = "publishBatch"
  /\ Len(lastCall.items) = 2
  /\ lastCall.causes[1] = "encode"
  /\ lastCall.causes[2] = "ok"
  /\ Len(lastCall.sent) = 1

\* C25: when at least one item of a batch fails to send, publishBatch
\* reports the failures to its caller: the call raises or its outcome names
\* the items that failed; failures never end in a normal return that
\* reports nothing.
C25_BatchFailuresReported ==
  (lastCall.op = "publishBatch" /\ FailedItems(lastCall.causes) # {}) =>
    \/ lastCall.result = "raised"
    \/ lastCall.reported = FailedItems(lastCall.causes)

\* C26: routing keys and bindings agree in casing and shape: an event with
\* entity E and type T published through RabbitMQEventBus.publish is routed
\* to every queue bound for type T, by RabbitMQEventBus.subscribe (for a
\* handler of entity E) or by an agent's SimpleEventBus.subscribe, and to no
\* queue bound for another type.
C26_RoutingConsistent ==
  [][\A e \in EntityNames, t \in PubTypes :
       (PublishCall(e, t, "envelope") /\ Sends("envelope")) =>
         LET m == Len(msgs) + 1
         IN /\ \A q \in bound :
                 IF q[2] = t /\ q[1] = e
                   THEN ready'[q] = Append(ready[q], m)
                   ELSE q[2] # t => ready'[q] = ready[q]
            /\ \A q \in agentQueues :
                 (q.type = t) <=> (<<q, m>> \in agentGot')]_vars

\* message m is consumed: it waits in no queue and each of its deliveries
\* ended with an ack
Consumed(m) ==
  /\ \A q \in QueueNames : \A j \in DOMAIN ready[q] : ready[q][j] # m
  /\ \E i \in DOMAIN deliv : deliv[i].msg = m
  /\ \A i \in DOMAIN deliv :
       deliv[i].msg = m => (deliv[i].pc = "done" /\ deliv[i].settled = "acked")

\* C27: each consumer has a queue of its own: when two distinct handlers
\* with the same entityType() are subscribed for the same message type,
\* a matching published event is delivered to both of them, not to one only.
C27_EveryHandlerGetsEvent ==
  (lastCall.op = "publish" /\ lastCall.sent # <<>> /\ Consumed(lastCall.sent[1]))
    => \A h \in lastCall.subscribers :
         \E i \in DOMAIN deliv : /\ deliv[i].msg = lastCall.sent[1]
                                 /\ deliv[i].h = h
                                 /\ deliv[i].invocations > 0

\* C28: within one queue the dispatcher brings a delivered message to its
\* terminal outcome (ack or nack) before the handler is invoked for the next
\* message of that queue, also while the earlier message waits in a retry
\* delay and with the configured prefetch.
C28_OneAtATimePerQueue ==
  \A i, j \in DOMAIN deliv :
    (i < j /\ deliv[i].queue = deliv[j].queue /\ deliv[j].invocations > 0)
      => deliv[i].pc = "done"

\* C29: getDLQMessages(limit) peeks: on a live channel it returns at most
\* limit parsed envelopes, skipping malformed entries without failing, and
\* after it every message it fetched is again available in the dead-letter
\* queue, so that a second call on the same channel returns the same.
C29_GetDLQPeeks ==
  [][\A l \in 1..MaxLimit :
       (GetDLQ(l) /\ ChanLive(channel)) =>
         /\ lastCall'.result = "returned"
         /\ Len(lastCall'.value) <= l
         /\ lastCall'.value = ParsedOf(FirstN(dlq, l))
         /\ dlq' = dlq
         /\ dlqHeld' = dlqHeld]_vars

\* ids of the envelopes published so far for a row
EnvelopeIdsOf(rowId) == {EnvelopeId(rowId, k) : k \in 1..envelopes[rowId].n}

\* C30: an envelope's id identifies one logical occurrence: when the cursor
\* service translates the same change-log row more than once, every
\* envelope published for that row carries the same id.
C30_SameIdPerRow ==
  \A i \in RowIds : Cardinality(EnvelopeIdsOf(i)) <= 1

\* ---- C31 .. C39

\* C32: the command-bus dispatcher handles a failing handler as the
\* event-bus dispatcher does: a handler that failed every time it was called
\* was called exactly maxRetries times before the delivery got its nack, on
\* either bus.
C32_CommandBusRetriesLikeEventBus ==
  \A i \in Delivs :
    HandlerFailedThroughout(deliv[i]) =>
      /\ deliv[i].invocations = maxRetries
      /\ deliv[i].nacks = 1

\* C34: in handleWithRetry the wait after failed attempt number a
\* (1 <= a < maxRetries) is retryDelayMs * 2^(a-1); a wait is only ever
\* taken after an attempt below maxRetries; and a delivery whose handler
\* failed on every attempt was preceded by exactly maxRetries - 1 waits,
\* none of them after the final failed attempt.
C34_RetryDelays ==
  \A i \in Delivs :
    LET d == deliv[i]
    IN /\ \A a \in DOMAIN d.delays : d.delays[a] = retryDelayMs * 2 ^ (a - 1)
       /\ Len(d.delays) < maxRetries
       /\ d.pc = "waiting" => Len(d.delays) = d.failures /\ d.attempt = d.failures
       /\ d.pc = "handling" => Len(d.delays) = d.attempt - 1
       /\ HandlerFailedThroughout(d) =>
            /\ Len(d.delays) = maxRetries - 1
            /\ d.failures = maxRetries
            /\ d.nacks = 1

\* C34 witness: with maxRetries = 4 and the default delay the handler failed
\* four times; the waits were 5 s, 10 s and 20 s and the delivery was nacked.
C34_Witness ==
  /\ maxRetries = 4
  /\ retryDelayMs = DefaultRetryDelayMs
  /\ \E i \in Delivs :
       /\ HandlerFailedThroughout(deliv[i])
       /\ deliv[i].delays = <<5000, 10000, 20000>>
       /\ deliv[i].nacks = 1

\* the registry holds handler h for this message type
Registered(h, type) == \E j \in DOMAIN handlers[type] : handlers[type][j] = h

\* C35: after unsubscribe(h, type) has returned (and h was not subscribed
\* again), h is not invoked for a message delivered afterwards on the queue
\* it had been subscribed to.
C35_NoInvocationAfterUnsubscribe ==
  [][\A i \in (DOMAIN deliv') \ (DOMAIN deliv) :
       (/\ lastCall.op = "unsubscribe"
        /\ lastCall.value = <<deliv'[i].h, deliv'[i].queue[2]>>
        /\ ~Registered(deliv'[i].h, deliv'[i].queue[2]))
         => deliv'[i].invocations = 0]_vars

\* getStatus().handlersCount: the handlers of the registry, over all types
HandlersCount ==
  LET RECURSIVE Sum(_)
      Sum(T) == IF T = {} THEN 0
                ELSE LET t == CHOOSE x \in T : TRUE
                     IN Len(handlers[t]) + Sum(T \ {t})
  IN Sum(TypeNames)

\* a consumer for handler h of this message type is registered on the
\* bus's current channel
ConsumesOnCurrentChannel(h, type) ==
  \E k \in consumers :
    k.chan = channel /\ k.queue = QueueName(h, type) /\ k.h = h

\* C36: whenever the bus is connected, every handler the registry counts has
\* a consumer on the bus's current channel: also after a connection loss
\* followed by a successful connect(), and after a subscribe() that raised.
C36_RegistryMatchesConsumers ==
  (isConnected /\ connPc = "idle" /\ HandlersCount > 0) =>
    \A t \in TypeNames : \A j \in DOMAIN handlers[t] :
      ConsumesOnCurrentChannel(handlers[t][j], t)

\* C37: the connected flag describes the bus's current connection only: when
\* a connection the bus has replaced ends (its late 'close' / 'error' event)
\* while the current connection stays open, a flag that was true stays true.
C37_FlagFollowsCurrentConnection ==
  [][\A c \in openConns \ openConns' :
       (c # connection /\ connection' = connection
        /\ connection \in openConns' /\ isConnected)
         => isConnected']_vars

\* PedidoProcessado envelopes published for pedido p
ProcessadoFor(p) == {e \in pedEvents : e.pedidoId = p}

\* no handler invocation for pedido p is still in progress or waiting for
\* its retry
Settled(p) ==
  \A j \in DOMAIN pedDeliv :
    pedDeliv[j].env.pedidoId = p => pedDeliv[j].pc = "done"

\* delivery i carries the envelope of an earlier delivery whose handler ran
\* to completion (stored the pedido and published PedidoProcessado) before
\* the handler was called for i
RepeatsCompletedRun(i) == pedDeliv[i].repeat /\ pedDeliv[i].attempt = 1

\* C33: handling a PedidoCriado envelope whose pedido a completed run has
\* already stored is harmless: the stored items are those of one envelope,
\* at most one PedidoProcessado exists for the pedido, and the repeated
\* invocation completes without error and leaves no transaction open.
C33_HandlerIdempotent ==
  /\ \A p \in PedidoIds :
       /\ Cardinality(ProcessadoFor(p)) <= 1
       /\ p \in pedRows =>
            \E j \in DOMAIN pedDeliv :
              pedDeliv[j].env.pedidoId = p /\ pedItems[p] = pedDeliv[j].env.items
  /\ \A i \in DOMAIN pedDeliv :
       (RepeatsCompletedRun(i) /\ pedDeliv[i].pc = "done") =>
         /\ pedDeliv[i].acks = 1
         /\ ~pedDeliv[i].openTx

\* C38: when the agent's entry point has not connected the event bus, the
\* bus has been connected by the time initialize() reaches
\* subscribeToEvents(), so that eventBus.subscribe can succeed.
C38_ConnectBeforeSubscribe ==
  (~entryConnects /\ pedPc = "tables") => channel # 0

\* C39: once a delivery of PedidoCriado has been acked, the pedido row is
\* stored and no invocation for that pedido is in progress, a
\* PedidoProcessado event for the pedido has been published: also when an
\* earlier attempt failed after the commit and the handler was retried.
C39_ProcessadoPublished ==
  \A i \in DOMAIN pedDeliv :
    LET p == pedDeliv[i].env.pedidoId
    IN (pedDeliv[i].acks = 1 /\ p \in pedRows /\ Settled(p))
         => ProcessadoFor(p) # {}

\* C31: every envelope a hop publishes carries the correlationId of what
\* triggered it: the cursor service the row's correlation_id, the agent's
\* PedidoProcessado the PedidoCriado envelope's, and the command handler's
\* PedidoCriado the command's.
C31_CorrelationPropagated ==
  /\ \A i \in RowIds :
       \A c \in envelopes[i].corrs : c = RowCorrelationId(i)
  /\ \A e \in pedEvents : e.corr = pedDeliv[e.by].env.corr
  /\ \A e \in cmdEvents : e.corr = e.from

\* C31 witness: the cursor service published envelopes for two rows with
\* different correlation ids, the agent published PedidoProcessado for an
\* envelope with correlationId c2, and the command handler published
\* PedidoCriado for a command with correlationId c1.
C31_Witness ==
  /\ \E i, j \in RowIds :
       /\ envelopes[i].corrs = {"c1"}
       /\ envelopes[j].corrs = {"c2"}
  /\ \E e \in pedEvents : e.corr = "c2" /\ pedDeliv[e.by].env.corr = "c2"
  /\ \E e \in cmdEvents : e.corr = "c1" /\ e.from = "c1"

====
